---- MODULE Spec2Model ----
(***************************************************************************)
(* Symmetry clustering of angular coefficient vectors (gdivclust/gdivsymm) *)
(* together with the fisheye pixel <-> index mapping it relies on          *)
(* (gdivmeas/gdivmeas_fullres).                                            *)
(*                                                                         *)
(* Conventions.  Python's None is the empty tuple << >> and a set field    *)
(* holding x is << x >>.  A Python list is a TLA+ sequence, so the list    *)
(* element c[k] (0-based) is the sequence element c[k+1]; numpy arrays     *)
(* that the code indexes are functions over 0..n-1 and keep Python's       *)
(* indices.  Coefficients are integers (a fixed-point unit); a quotient    *)
(* x / s of the final normalisation is the pair [num |-> x, den |-> s],    *)
(* where den = 0 stands for the non-finite value numpy produces.           *)
(*                                                                         *)
(* A value that is used many times is bound once as  x \in {v}  in a set   *)
(* constructor  {e(x) : x \in {v}}  whose single element The(...) takes:   *)
(* this is LET x == v IN e(x), with v evaluated only once.                 *)
(***************************************************************************)
EXTENDS Integers, Sequences, FiniteSets, Bags, TLC

\* ------------------------------- bounds --------------------------------
\* Largest Reinhart subdivision factor whose basis size is offered as input.
MaxMF == 3

\* Largest number of coefficients offered to the full-resolution policy.
MaxFullRes == 12

\* Largest fisheye image radius, in pixels, offered to pix2Idx and idx2Pix.
MaxRadius == 4

\* Largest subdivision factor whose solid angles are summed.
MaxSumMF == 8

\* ------------------------------ helpers --------------------------------
None == << >>

\* The element of a one-element set.
The(S) == CHOOSE x \in S : TRUE

Some(x) == << x >>

\* list(range(a, b))
PyRange(a, b) == [j \in 1..(IF b > a THEN b - a ELSE 0) |-> a + j - 1]

\* The elements of a list, as a set.
Elems(c) == {c[j] : j \in DOMAIN c}

\* Sum of the naturals f[k] over k in the set S: the size of the bag that
\* holds f[k] copies of every k.
SumOver(f, S) == BagCardinality([k \in {j \in S : f[j] > 0} |-> f[k]])

\* ------------------------------ BASE CLASS ------------------------------
Policies == {"Klems", "ReinhartRot", "ReinhartCurve", "ReinhartProf", "FullRes"}

\* Fields of a freshly constructed instance: the class attributes of
\* SymmetryBase.  _numCoeffs is the attribute ReinhartCurveSymmetry.clusters
\* creates; it does not exist (None here) on any other instance.
SymmetryBase ==
   [_resolution |-> None, _numCoeff |-> None, _clusters |-> None,
    _numCoeffs |-> None]

\* What a method call yields: the instance afterwards, the exception raised
\* ("" when the call returns) and the value returned.
Return(self, val) == [self |-> self, exc |-> "", val |-> val]

Raise(self, exc) == [self |-> self, exc |-> exc, val |-> << >>]

\* The test without its comparison of the sizes: a cache is taken as valid
\* whatever the size it was computed for.
CacheMissAnySize(self, numCoeff) ==
   self._clusters = None

\* if self._clusters is None or self._numCoeff != numCoeff: the test every
\* clusters method makes before it computes its clusters.
CacheMiss(self, numCoeff) ==
   self._clusters = None \/ self._numCoeff # Some(numCoeff)

\* ---------------------------------- KLEMS ----------------------------------
\* KlemsSymmetry.clusters with the 45 degree band one bin short.
KlemsSymmetry_clustersShort(self, numCoeff) ==
   IF CacheMiss(self, numCoeff)
   THEN IF numCoeff # 145
        THEN Raise(self, "ValueError: Invalid number of Klems coefficients")
        ELSE LET new == [self EXCEPT
                            !._clusters = Some(<< << 0 >>, PyRange(1, 45),
                                                  PyRange(45, 92), PyRange(93, 145) >>),
                            !._numCoeff = Some(numCoeff),
                            !._resolution = Some(1)]
             IN  Return(new, new._clusters[1])
   ELSE Return(self, self._clusters[1])

KlemsSymmetry_clusters(self, numCoeff) ==
   IF CacheMiss(self, numCoeff)
   THEN IF numCoeff # 145
        THEN Raise(self, "ValueError: Invalid number of Klems coefficients")
        ELSE LET CLUST0  == << 0 >>
                 CLUST30 == PyRange(1, 45)
                 CLUST45 == PyRange(45, 93)
                 CLUST60 == PyRange(93, 145)
                 new == [self EXCEPT
                            !._clusters = Some(<< CLUST0, CLUST30, CLUST45, CLUST60 >>),
                            !._numCoeff = Some(numCoeff),
                            !._resolution = Some(1)]
             IN  Return(new, new._clusters[1])
   ELSE Return(self, self._clusters[1])

\* -------------------------------- REINHART --------------------------------
\* round(sqrt((numCoeff - 1) / 144)): the integer nearest to the root, a tie
\* k + 1/2 going to the even neighbour (numpy rounds half to even).  The root
\* is within 1/2 of m iff 36 (2m-1)^2 <= numCoeff - 1 <= 36 (2m+1)^2.
RoundSqrt144(x) ==
   LET near == {m \in 0..(x \div 144 + 1) :
                   /\ (m = 0 \/ 36 * (2*m - 1) * (2*m - 1) <= x)
                   /\ x <= 36 * (2*m + 1) * (2*m + 1)}
   IN  IF Cardinality(near) = 1 THEN CHOOSE m \in near : TRUE
       ELSE CHOOSE m \in near : m % 2 = 0

\* The patches per row listed from the zenith down, as reinhartSolidAngles
\* lists them, in place of from the horizon up.
tnazFromZenith == << 6, 12, 18, 24, 24, 30, 30 >>

tnaz == << 30, 30, 24, 24, 18, 12, 6 >>

\* The patches without the polar cap: the last accumulated count is not
\* raised by one.
ReinhartRowsNoCap(MF) ==
   LET r_row == (2 * 7 * MF + 1) \div 2
       rnaz  == [r \in 0..(r_row - 1) |-> MF * tnaz[(r \div MF) + 1]]
       racc[r \in 0..r_row] ==
          IF r = 0 THEN rnaz[0]
          ELSE IF r < r_row THEN racc[r - 1] + rnaz[r]
          ELSE racc[r - 1]
   IN  [r_row |-> r_row, rnaz |-> rnaz,
        racc |-> [r \in 0..r_row |-> racc[r]]]

\* The patches (rows, divisions per row, accumulated divisions) once the
\* subdivision factor MF >= 1 is known.  alpha = 90 / (7 MF + 1/2) and
\* r_row = int(90 / alpha), the integer part of 7 MF + 1/2.
ReinhartRows(MF) ==
   LET r_row == (2 * 7 * MF + 1) \div 2
       rnaz  == [r \in 0..(r_row - 1) |-> MF * tnaz[(r \div MF) + 1]]
       racc[r \in 0..r_row] ==
          IF r = 0 THEN rnaz[0]
          ELSE IF r < r_row THEN racc[r - 1] + rnaz[r]
          ELSE racc[r - 1] + 1
   IN  [r_row |-> r_row, rnaz |-> rnaz,
        racc |-> [r \in 0..r_row |-> racc[r]]]

\* ReinhartSymmetry.patches: _resolution is assigned before the size check,
\* so it is left set when the call raises.  With MF = 0 the row count is 0
\* and racc[0] = rnaz[0] indexes an empty array.
ReinhartSymmetry_patches(self, numCoeff) ==
   LET MF  == RoundSqrt144(numCoeff - 1)
       new == [self EXCEPT !._resolution = Some(MF)]
   IN  IF MF * MF * 144 + 1 # numCoeff
       THEN Raise(new, "ValueError: Invalid number of Reinhart coefficients")
       ELSE IF MF = 0
       THEN Raise(new, "IndexError: index 0 is out of bounds")
       ELSE Return(new, ReinhartRows(MF))

\* The array clust filled in the order of the rows: clust[0] the row at
\* the horizon, clust[r_row] the polar cap.
RowClustersFromHorizon(patches) ==
   The({ [k \in 0..p.r_row |->
            IF k = 0 THEN PyRange(0, p.racc[0])
            ELSE PyRange(p.racc[k - 1], p.racc[k])]
         : p \in {patches} })

\* The array clust both Reinhart policies build from the patches: clust[0]
\* is the polar cap, clust[r_row] the row at the horizon.
RowClusters(patches) ==
   The({ [k \in 0..p.r_row |->
            IF k = p.r_row THEN PyRange(0, p.racc[0])
            ELSE PyRange(p.racc[p.r_row - k - 1], p.racc[p.r_row - k])]
         : p \in {patches} })

\* An array 0..n-1 as a list.
ArrayList(array) ==
   The({ [j \in 1..Cardinality(DOMAIN a) |-> a[j - 1]] : a \in {array} })

\* The merge with its row loop stopping one row early.
RECURSIVE MergeOpen(_, _, _)
MergeOpen(clust, lo, hi) ==
   IF lo >= hi - 1 THEN << >> ELSE clust[lo] \o MergeOpen(clust, lo + 1, hi)

\* The list built by  for i in range(lo, hi): for j in ...: L.append(clust[i][j])
RECURSIVE Merge(_, _, _)
Merge(clust, lo, hi) ==
   IF lo >= hi THEN << >> ELSE clust[lo] \o Merge(clust, lo + 1, hi)

ReinhartCurveSymmetry_clusters(self, numCoeff) ==
   IF CacheMiss(self, numCoeff)
   THEN The({
      IF p.exc # "" THEN p
      ELSE The({
         IF \E i \in 0..28 : i \notin DOMAIN clust
         THEN Raise(p.self, "IndexError: index is out of bounds")
         ELSE LET CLUST0  == clust[0]
                  CLUST3  == clust[1]
                  CLUST6  == clust[2]
                  CLUST9  == clust[3]
                  CLUST10 == Merge(clust, 4, 5)
                  CLUST20 == Merge(clust, 5, 8)
                  CLUST30 == Merge(clust, 8, 11)
                  CLUST40 == Merge(clust, 11, 14)
                  CLUST44 == clust[14]
                  CLUST47 == clust[15]
                  CLUST50 == clust[16]
                  CLUST53 == clust[17]
                  CLUST56 == clust[18]
                  CLUST60 == Merge(clust, 19, 21)
                  CLUST70 == Merge(clust, 21, 29)
                  _clusters == <<
                     CLUST0, CLUST3, CLUST6, CLUST9, CLUST10,
                     CLUST20, CLUST30, CLUST40, CLUST44, CLUST47,
                     CLUST50, CLUST53, CLUST56, CLUST60, CLUST70 >>
              IN  Return([p.self EXCEPT !._clusters = Some(_clusters),
                                        !._numCoeffs = Some(numCoeff)],
                         _clusters)
         : clust \in {RowClusters(p.val)} })
      : p \in {ReinhartSymmetry_patches(self, numCoeff)} })
   ELSE Return(self, self._clusters[1])

ReinhartRotSymmetry_clusters(self, numCoeff) ==
   IF CacheMiss(self, numCoeff)
   THEN The({
      IF p.exc # "" THEN p
      ELSE The({
         Return([p.self EXCEPT !._clusters = Some(clust),
                               !._numCoeff = Some(numCoeff)],
                clust)
         : clust \in {ArrayList(RowClusters(p.val))} })
      : p \in {ReinhartSymmetry_patches(self, numCoeff)} })
   ELSE Return(self, self._clusters[1])

\* The thirteen bin lists of ReinhartProfSymmetry.clusters.
ProfCLUST1 ==
   << 86, 87, 88, 89, 90, 207, 208, 209 >>

ProfCLUST2 ==
   << 81, 82, 83, 84, 85, 91, 92, 93, 94, 95, 201, 202, 203, 204, 205, 206,
      210, 211, 212, 213, 214, 215, 322, 323, 324, 325, 326, 327, 328, 329,
      330, 331, 332, 333, 334, 442, 443, 444, 445, 446, 447, 448, 449, 450,
      451, 452, 453, 454, 563, 564, 565, 566, 567, 568, 569, 570, 571, 572,
      573, 684, 685, 686, 687, 688, 689, 690, 691, 692, 807, 808, 809 >>

ProfCLUST3 ==
   << 76, 77, 78, 79, 80, 96, 97, 98, 99, 100, 196, 197, 198, 199, 200,
      216, 217, 218, 219, 220, 316, 317, 318, 319, 320, 321, 335, 336, 337,
      338, 339, 340, 436, 437, 438, 439, 440, 441, 455, 456, 457, 458, 459,
      460, 557, 558, 559, 560, 561, 562, 574, 575, 576, 577, 578, 579, 677,
      678, 679, 680, 681, 682, 683, 693, 694, 695, 696, 697, 698, 699, 797,
      798, 799, 800, 801, 802, 803, 804, 805, 806, 810, 811, 812, 813, 814,
      815, 816, 817, 818, 819, 918, 919, 920, 921, 922, 923, 924, 925, 926,
      927, 928, 929, 930, 931, 932, 933, 934, 935, 936, 937, 938, 1023,
      1024, 1025, 1026, 1027, 1028, 1029, 1030, 1031, 1032, 1033, 1034,
      1035, 1036, 1037, 1038, 1120, 1121, 1122, 1123, 1124, 1125, 1126,
      1127, 1128, 1129, 1130, 1131, 1132, 1218, 1219, 1220, 1221, 1222,
      1223, 1224, 1225, 1226, 1227 >>

ProfCLUST4 ==
   << 71, 72, 73, 74, 75, 101, 102, 103, 104, 105, 191, 192, 193, 194, 195,
      221, 222, 223, 224, 225, 311, 312, 313, 314, 315, 341, 342, 343, 344,
      345, 431, 432, 433, 434, 435, 461, 462, 463, 464, 465, 551, 552, 553,
      554, 555, 556, 580, 581, 582, 583, 584, 585, 671, 672, 673, 674, 675,
      676, 700, 701, 702, 703, 704, 705, 791, 792, 793, 794, 795, 796, 820,
      821, 822, 823, 824, 825, 912, 913, 914, 915, 916, 917, 939, 940, 941,
      942, 943, 944, 1018, 1019, 1020, 1021, 1022, 1039, 1040, 1041, 1042,
      1043, 1114, 1115, 1116, 1117, 1118, 1119, 1133, 1134, 1135, 1136,
      1137, 1138, 1139, 1210, 1211, 1212, 1213, 1214, 1215, 1216, 1217,
      1228, 1229, 1230, 1231, 1232, 1233, 1234, 1235, 1307, 1308, 1309,
      1310, 1311, 1312, 1313, 1314, 1315, 1316, 1317, 1318, 1319, 1320,
      1321, 1322, 1323, 1324, 1325, 1326, 1327, 1328, 1329, 1330, 1403,
      1404, 1405, 1406, 1407, 1408, 1409, 1410, 1411, 1412, 1413, 1414,
      1415, 1416, 1417, 1418, 1419, 1420, 1421, 1422, 1423, 1424, 1425,
      1426, 1500, 1501, 1502, 1503, 1504, 1505, 1506, 1507, 1508, 1509,
      1510, 1511, 1512, 1513, 1514, 1515, 1516, 1517, 1518, 1519, 1520,
      1521, 1597, 1598, 1599, 1600, 1601, 1602, 1603, 1604, 1605, 1606,
      1607, 1608, 1609, 1610, 1611, 1612, 1613, 1614, 1615, 1696, 1697,
      1698, 1699, 1700, 1701, 1702, 1703, 1704, 1705, 1706, 1707, 1708, 1709 >>

ProfCLUST5 ==
   << 66, 67, 68, 69, 70, 106, 107, 108, 109, 110, 186, 187, 188, 189, 190,
      226, 227, 228, 229, 230, 306, 307, 308, 309, 310, 346, 347, 348, 349,
      350, 426, 427, 428, 429, 430, 466, 467, 468, 469, 470, 546, 547, 548,
      549, 550, 586, 587, 588, 589, 590, 666, 667, 668, 669, 670, 706, 707,
      708, 709, 710, 786, 787, 788, 789, 790, 826, 827, 828, 829, 830, 906,
      907, 908, 909, 910, 911, 945, 946, 947, 948, 949, 950, 1013, 1014,
      1015, 1016, 1017, 1044, 1045, 1046, 1047, 1048, 1109, 1110, 1111,
      1112, 1113, 1140, 1141, 1142, 1143, 1144, 1205, 1206, 1207, 1208,
      1209, 1236, 1237, 1238, 1239, 1240, 1301, 1302, 1303, 1304, 1305,
      1306, 1331, 1332, 1333, 1334, 1335, 1336, 1397, 1398, 1399, 1400,
      1401, 1402, 1427, 1428, 1429, 1430, 1431, 1432, 1493, 1494, 1495,
      1496, 1497, 1498, 1499, 1522, 1523, 1524, 1525, 1526, 1527, 1590,
      1591, 1592, 1593, 1594, 1595, 1596, 1616, 1617, 1618, 1619, 1620,
      1621, 1622, 1623, 1686, 1687, 1688, 1689, 1690, 1691, 1692, 1693,
      1694, 1695, 1710, 1711, 1712, 1713, 1714, 1715, 1716, 1717, 1718,
      1719, 1769, 1770, 1771, 1772, 1773, 1774, 1775, 1776, 1777, 1778,
      1779, 1780, 1781, 1782, 1783, 1784, 1785, 1786, 1787, 1788, 1789,
      1790, 1791, 1792, 1793, 1841, 1842, 1843, 1844, 1845, 1846, 1847,
      1848, 1849, 1850, 1851, 1852, 1853, 1854, 1855, 1856, 1857, 1858,
      1859, 1860, 1861, 1862, 1863, 1864, 1865, 1913, 1914, 1915, 1916,
      1917, 1918, 1919, 1920, 1921, 1922, 1923, 1924, 1925, 1926, 1927,
      1928, 1929, 1930, 1931, 1932, 1933, 1934, 1935, 1936, 1986, 1987,
      1988, 1989, 1990, 1991, 1992, 1993, 1994, 1995, 1996, 1997, 1998,
      1999, 2000, 2001, 2002, 2003, 2004, 2005, 2006, 2007, 2047, 2048,
      2049, 2050, 2051, 2052, 2053, 2054, 2055, 2056 >>

ProfCLUST6 ==
   << 61, 62, 63, 64, 65, 111, 112, 113, 114, 115, 181, 182, 183, 184, 185,
      231, 232, 233, 234, 235, 301, 302, 303, 304, 305, 351, 352, 353, 354,
      355, 421, 422, 423, 424, 425, 471, 472, 473, 474, 475, 541, 542, 543,
      544, 545, 591, 592, 593, 594, 595, 661, 662, 663, 664, 665, 711, 712,
      713, 714, 715, 781, 782, 783, 784, 785, 831, 832, 833, 834, 835, 901,
      902, 903, 904, 905, 951, 952, 953, 954, 955, 1009, 1010, 1011, 1012,
      1049, 1050, 1051, 1052, 1105, 1106, 1107, 1108, 1145, 1146, 1147,
      1148, 1201, 1202, 1203, 1204, 1241, 1242, 1243, 1244, 1297, 1298,
      1299, 1300, 1337, 1338, 1339, 1340, 1393, 1394, 1395, 1396, 1433,
      1434, 1435, 1436, 1489, 1490, 1491, 1492, 1528, 1529, 1530, 1531,
      1532, 1585, 1586, 1587, 1588, 1589, 1624, 1625, 1626, 1627, 1628,
      1681, 1682, 1683, 1684, 1685, 1720, 1721, 1722, 1723, 1724, 1765,
      1766, 1767, 1768, 1794, 1795, 1796, 1797, 1837, 1838, 1839, 1840,
      1866, 1867, 1868, 1869, 1909, 1910, 1911, 1912, 1937, 1938, 1939,
      1940, 1941, 1981, 1982, 1983, 1984, 1985, 2008, 2009, 2010, 2011,
      2012, 2013, 2041, 2042, 2043, 2044, 2045, 2046, 2057, 2058, 2059,
      2060, 2061, 2062, 2089, 2090, 2091, 2092, 2093, 2094, 2095, 2096,
      2097, 2098, 2099, 2100, 2101, 2102, 2103, 2104, 2105, 2106, 2107,
      2108, 2109, 2110, 2137, 2138, 2139, 2140, 2141, 2142, 2143, 2144,
      2145, 2146, 2147, 2148, 2149, 2150, 2151, 2152, 2153, 2154, 2155,
      2156, 2157, 2158, 2185, 2186, 2187, 2188, 2189, 2190, 2191, 2192,
      2193, 2194, 2195, 2196, 2197, 2198, 2199, 2200, 2201, 2202, 2203,
      2204, 2205, 2206, 2221, 2222, 2223, 2224, 2225, 2226, 2227, 2228,
      2229, 2230, 2246, 2247, 2248, 2249, 2250, 2251, 2252, 2253, 2254 >>

ProfCLUST7 ==
   << 0, 56, 57, 58, 59, 60, 116, 117, 118, 119, 120, 176, 177, 178, 179,
      180, 236, 237, 238, 239, 240, 296, 297, 298, 299, 300, 356, 357, 358,
      359, 360, 416, 417, 418, 419, 420, 476, 477, 478, 479, 480, 536, 537,
      538, 539, 540, 596, 597, 598, 599, 600, 656, 657, 658, 659, 660, 716,
      717, 718, 719, 720, 776, 777, 778, 779, 780, 836, 837, 838, 839, 840,
      896, 897, 898, 899, 900, 956, 957, 958, 959, 960, 1005, 1006, 1007,
      1008, 1053, 1054, 1055, 1056, 1101, 1102, 1103, 1104, 1149, 1150,
      1151, 1152, 1197, 1198, 1199, 1200, 1245, 1246, 1247, 1248, 1293,
      1294, 1295, 1296, 1341, 1342, 1343, 1344, 1389, 1390, 1391, 1392,
      1437, 1438, 1439, 1440, 1485, 1486, 1487, 1488, 1533, 1534, 1535,
      1536, 1581, 1582, 1583, 1584, 1629, 1630, 1631, 1632, 1677, 1678,
      1679, 1680, 1725, 1726, 1727, 1728, 1762, 1763, 1764, 1798, 1799,
      1800, 1834, 1835, 1836, 1870, 1871, 1872, 1906, 1907, 1908, 1942,
      1943, 1944, 1978, 1979, 1980, 2014, 2015, 2016, 2039, 2040, 2063,
      2064, 2087, 2088, 2111, 2112, 2135, 2136, 2159, 2160, 2183, 2184,
      2207, 2208, 2219, 2220, 2231, 2232, 2233, 2243, 2244, 2245, 2255,
      2256, 2257, 2258, 2259, 2260, 2261, 2262, 2263, 2264, 2265, 2266,
      2267, 2268, 2269, 2270, 2271, 2272, 2273, 2274, 2275, 2276, 2277,
      2278, 2279, 2280, 2281, 2282, 2283, 2284, 2285, 2286, 2287, 2288,
      2289, 2290, 2291, 2292, 2293, 2294, 2295, 2296, 2297, 2298, 2299,
      2300, 2301, 2302, 2303, 2304 >>

ProfCLUST8 ==
   << 1, 2, 3, 4, 5, 51, 52, 53, 54, 55, 121, 122, 123, 124, 125, 171, 172,
      173, 174, 175, 241, 242, 243, 244, 245, 291, 292, 293, 294, 295, 361,
      362, 363, 364, 365, 411, 412, 413, 414, 415, 481, 482, 483, 484, 485,
      531, 532, 533, 534, 535, 601, 602, 603, 604, 605, 651, 652, 653, 654,
      655, 721, 722, 723, 724, 725, 771, 772, 773, 774, 775, 841, 842, 843,
      844, 845, 891, 892, 893, 894, 895, 961, 962, 963, 964, 1001, 1002,
      1003, 1004, 1057, 1058, 1059, 1060, 1097, 1098, 1099, 1100, 1153,
      1154, 1155, 1156, 1193, 1194, 1195, 1196, 1249, 1250, 1251, 1252,
      1289, 1290, 1291, 1292, 1345, 1346, 1347, 1348, 1385, 1386, 1387,
      1388, 1441, 1442, 1443, 1444, 1480, 1481, 1482, 1483, 1484, 1537,
      1538, 1539, 1540, 1541, 1576, 1577, 1578, 1579, 1580, 1633, 1634,
      1635, 1636, 1637, 1672, 1673, 1674, 1675, 1676, 1729, 1730, 1731,
      1732, 1758, 1759, 1760, 1761, 1801, 1802, 1803, 1804, 1830, 1831,
      1832, 1833, 1873, 1874, 1875, 1876, 1901, 1902, 1903, 1904, 1905,
      1945, 1946, 1947, 1948, 1949, 1972, 1973, 1974, 1975, 1976, 1977,
      2017, 2018, 2019, 2020, 2021, 2022, 2033, 2034, 2035, 2036, 2037,
      2038, 2065, 2066, 2067, 2068, 2069, 2070, 2071, 2072, 2073, 2074,
      2075, 2076, 2077, 2078, 2079, 2080, 2081, 2082, 2083, 2084, 2085,
      2086, 2113, 2114, 2115, 2116, 2117, 2118, 2119, 2120, 2121, 2122,
      2123, 2124, 2125, 2126, 2127, 2128, 2129, 2130, 2131, 2132, 2133,
      2134, 2161, 2162, 2163, 2164, 2165, 2166, 2167, 2168, 2169, 2170,
      2171, 2172, 2173, 2174, 2175, 2176, 2177, 2178, 2179, 2180, 2181,
      2182, 2209, 2210, 2211, 2212, 2213, 2214, 2215, 2216, 2217, 2218,
      2234, 2235, 2236, 2237, 2238, 2239, 2240, 2241, 2242 >>

ProfCLUST9 ==
   << 6, 7, 8, 9, 10, 46, 47, 48, 49, 50, 126, 127, 128, 129, 130, 166,
      167, 168, 169, 170, 246, 247, 248, 249, 250, 286, 287, 288, 289, 290,
      366, 367, 368, 369, 370, 406, 407, 408, 409, 410, 486, 487, 488, 489,
      490, 526, 527, 528, 529, 530, 606, 607, 608, 609, 610, 646, 647, 648,
      649, 650, 726, 727, 728, 729, 730, 766, 767, 768, 769, 770, 846, 847,
      848, 849, 850, 851, 885, 886, 887, 888, 889, 890, 965, 966, 967, 968,
      969, 996, 997, 998, 999, 1000, 1061, 1062, 1063, 1064, 1065, 1092,
      1093, 1094, 1095, 1096, 1157, 1158, 1159, 1160, 1161, 1188, 1189,
      1190, 1191, 1192, 1253, 1254, 1255, 1256, 1257, 1258, 1283, 1284,
      1285, 1286, 1287, 1288, 1349, 1350, 1351, 1352, 1353, 1354, 1379,
      1380, 1381, 1382, 1383, 1384, 1445, 1446, 1447, 1448, 1449, 1450,
      1451, 1474, 1475, 1476, 1477, 1478, 1479, 1542, 1543, 1544, 1545,
      1546, 1547, 1548, 1568, 1569, 1570, 1571, 1572, 1573, 1574, 1575,
      1638, 1639, 1640, 1641, 1642, 1643, 1644, 1645, 1646, 1647, 1662,
      1663, 1664, 1665, 1666, 1667, 1668, 1669, 1670, 1671, 1733, 1734,
      1735, 1736, 1737, 1738, 1739, 1740, 1741, 1742, 1743, 1744, 1745,
      1746, 1747, 1748, 1749, 1750, 1751, 1752, 1753, 1754, 1755, 1756,
      1757, 1805, 1806, 1807, 1808, 1809, 1810, 1811, 1812, 1813, 1814,
      1815, 1816, 1817, 1818, 1819, 1820, 1821, 1822, 1823, 1824, 1825,
      1826, 1827, 1828, 1829, 1877, 1878, 1879, 1880, 1881, 1882, 1883,
      1884, 1885, 1886, 1887, 1888, 1889, 1890, 1891, 1892, 1893, 1894,
      1895, 1896, 1897, 1898, 1899, 1900, 1950, 1951, 1952, 1953, 1954,
      1955, 1956, 1957, 1958, 1959, 1960, 1961, 1962, 1963, 1964, 1965,
      1966, 1967, 1968, 1969, 1970, 1971, 2023, 2024, 2025, 2026, 2027,
      2028, 2029, 2030, 2031, 2032 >>

ProfCLUST10 ==
   << 11, 12, 13, 14, 15, 41, 42, 43, 44, 45, 131, 132, 133, 134, 135, 161,
      162, 163, 164, 165, 251, 252, 253, 254, 255, 281, 282, 283, 284, 285,
      371, 372, 373, 374, 375, 401, 402, 403, 404, 405, 491, 492, 493, 494,
      495, 496, 520, 521, 522, 523, 524, 525, 611, 612, 613, 614, 615, 616,
      640, 641, 642, 643, 644, 645, 731, 732, 733, 734, 735, 736, 760, 761,
      762, 763, 764, 765, 852, 853, 854, 855, 856, 857, 879, 880, 881, 882,
      883, 884, 970, 971, 972, 973, 974, 991, 992, 993, 994, 995, 1066,
      1067, 1068, 1069, 1070, 1071, 1085, 1086, 1087, 1088, 1089, 1090,
      1091, 1162, 1163, 1164, 1165, 1166, 1167, 1168, 1169, 1180, 1181,
      1182, 1183, 1184, 1185, 1186, 1187, 1259, 1260, 1261, 1262, 1263,
      1264, 1265, 1266, 1267, 1268, 1269, 1270, 1271, 1272, 1273, 1274,
      1275, 1276, 1277, 1278, 1279, 1280, 1281, 1282, 1355, 1356, 1357,
      1358, 1359, 1360, 1361, 1362, 1363, 1364, 1365, 1366, 1367, 1368,
      1369, 1370, 1371, 1372, 1373, 1374, 1375, 1376, 1377, 1378, 1452,
      1453, 1454, 1455, 1456, 1457, 1458, 1459, 1460, 1461, 1462, 1463,
      1464, 1465, 1466, 1467, 1468, 1469, 1470, 1471, 1472, 1473, 1549,
      1550, 1551, 1552, 1553, 1554, 1555, 1556, 1557, 1558, 1559, 1560,
      1561, 1562, 1563, 1564, 1565, 1566, 1567, 1648, 1649, 1650, 1651,
      1652, 1653, 1654, 1655, 1656, 1657, 1658, 1659, 1660, 1661 >>

ProfCLUST11 ==
   << 16, 17, 18, 19, 20, 36, 37, 38, 39, 40, 136, 137, 138, 139, 140, 156,
      157, 158, 159, 160, 256, 257, 258, 259, 260, 261, 275, 276, 277, 278,
      279, 280, 376, 377, 378, 379, 380, 381, 395, 396, 397, 398, 399, 400,
      497, 498, 499, 500, 501, 502, 514, 515, 516, 517, 518, 519, 617, 618,
      619, 620, 621, 622, 623, 633, 634, 635, 636, 637, 638, 639, 737, 738,
      739, 740, 741, 742, 743, 744, 745, 746, 750, 751, 752, 753, 754, 755,
      756, 757, 758, 759, 858, 859, 860, 861, 862, 863, 864, 865, 866, 867,
      868, 869, 870, 871, 872, 873, 874, 875, 876, 877, 878, 975, 976, 977,
      978, 979, 980, 981, 982, 983, 984, 985, 986, 987, 988, 989, 990,
      1072, 1073, 1074, 1075, 1076, 1077, 1078, 1079, 1080, 1081, 1082,
      1083, 1084, 1170, 1171, 1172, 1173, 1174, 1175, 1176, 1177, 1178, 1179 >>

ProfCLUST12 ==
   << 21, 22, 23, 24, 25, 31, 32, 33, 34, 35, 141, 142, 143, 144, 145, 146,
      150, 151, 152, 153, 154, 155, 262, 263, 264, 265, 266, 267, 268, 269,
      270, 271, 272, 273, 274, 382, 383, 384, 385, 386, 387, 388, 389, 390,
      391, 392, 393, 394, 503, 504, 505, 506, 507, 508, 509, 510, 511, 512,
      513, 624, 625, 626, 627, 628, 629, 630, 631, 632, 747, 748, 749 >>

\* The last list with its final entry mistyped.
ProfCLUST13Typo ==
   << 26, 27, 28, 29, 30, 147, 148, 148 >>

ProfCLUST13 ==
   << 26, 27, 28, 29, 30, 147, 148, 149 >>

ReinhartProfSymmetry_clusters(self, numCoeff) ==
   IF CacheMiss(self, numCoeff)
   THEN LET new == [self EXCEPT
                       !._clusters = Some(<<
                          ProfCLUST1, ProfCLUST2, ProfCLUST3, ProfCLUST4,
                          ProfCLUST5, ProfCLUST6, ProfCLUST7, ProfCLUST8,
                          ProfCLUST9, ProfCLUST10, ProfCLUST11, ProfCLUST12,
                          ProfCLUST13 >>),
                       !._numCoeff = Some(numCoeff)]
        IN  Return(new, new._clusters[1])
   ELSE Return(self, self._clusters[1])

\* ------------------- Pixel <--> index mapping stuff ----------------------
\* Reals are fixed-point integers in units of 1e-6 (Micro).  The radii the
\* model uses are small enough for every intermediate value to fit in 31
\* bits and for the fixed-point error (below 1e-3) to stay clear of every
\* rounding and comparison the code makes.
Micro == 1000000

\* numpy.pi, in units of 1e-6.
pi == 3141593

\* Square roots are taken of integers scaled by SqrtScale^2.
SqrtScale == 4096

\* The largest s in lo..hi with s * s <= x.
RECURSIVE ISqrt(_, _, _)
ISqrt(x, lo, hi) ==
   IF lo >= hi THEN lo
   ELSE LET mid == (lo + hi + 1) \div 2
        IN  IF mid * mid <= x THEN ISqrt(x, mid, hi) ELSE ISqrt(x, lo, mid - 1)

\* sqrt(q) for an integer q >= 0, in units of 1e-6.
sqrt(q) == (ISqrt(q * SqrtScale * SqrtScale, 0, 46340) * 15625) \div 64

\* arctan(2^-i) for i = 0..20, in units of 1e-6.
atanTable ==
   << 785398, 463648, 244979, 124355, 62419, 31240, 15624, 7812, 3906, 1953,
      977, 488, 244, 122, 61, 31, 15, 8, 4, 2, 1 >>

\* The angle of the vector (x, y), x >= 0, y >= 0, by rotating it onto the
\* x axis in steps of arctan(2^-i); z accumulates the angle turned.
RECURSIVE Cordic(_, _, _, _)
Cordic(x, y, z, i) ==
   IF i > Len(atanTable) THEN z
   ELSE LET p == 2 ^ (i - 1)
        IN  IF y > 0
            THEN Cordic(x + (y \div p), y - (x \div p), z + atanTable[i], i + 1)
            ELSE IF y < 0
            THEN Cordic(x - (y \div p), y + (x \div p), z - atanTable[i], i + 1)
            ELSE z

\* arccos(v / r) for integers -r <= v <= r, r >= 1, in units of 1e-6.
arccos(v, r) ==
   LET y == ISqrt((r * r - v * v) * SqrtScale * SqrtScale, 0, 46340)
       a == Cordic((IF v < 0 THEN -v ELSE v) * SqrtScale, y, 0, 1)
   IN  IF v < 0 THEN pi - a ELSE a

\* Central angle alpha subtended by chord at height v.
alpha(v, r) == IF v <= r THEN 2 * arccos(v, r) ELSE 0

\* Area of circular segment at height v:  0.5 r^2 (alpha - sin(alpha)), where
\* sin(alpha) = sin(2 arccos(v/r)) = 2 (v/r) sqrt(1 - (v/r)^2), so that
\* 0.5 r^2 sin(alpha) = v sqrt(r^2 - v^2).
segArea(v, r) ==
   IF v <= r
   THEN (r * r * alpha(v, r)) \div 2
        - (v * ISqrt((r * r - v * v) * SqrtScale * SqrtScale, 0, 46340) * 15625) \div 64
   ELSE 0

\* Chord length at height v.
chordLen(v, r) == IF v <= r THEN 2 * sqrt(r * r - v * v) ELSE 0

\* int(x) of a fixed-point x: truncation towards zero.
int(x) == IF x >= 0 THEN x \div Micro ELSE -((-x) \div Micro)

\* pix2Idx with the test of the bounding square in place of the test of
\* the circle.
pix2IdxSquare(pix, radius) ==
   LET u == pix[1] - radius
       v == pix[2] - radius
   IN  IF u * u >= radius * radius \/ v * v >= radius * radius
       THEN -1
       ELSE int(segArea(v + 1, radius) + Micro \div 2)
            + int(chordLen(v + 1, radius) \div 2 + u * Micro + (3 * Micro) \div 2)

\* pix2Idx.  For integers u, v and radius, u**2 + v**2 + EPSILON > radius**2
\* with EPSILON = 1e-6 is u^2 + v^2 >= radius^2.
pix2Idx(pix, radius) ==
   LET u == pix[1] - radius
       v == pix[2] - radius
   IN  IF u * u + v * v >= radius * radius
       THEN -1
       ELSE int(segArea(v + 1, radius) + Micro \div 2)
            + int(chordLen(v + 1, radius) \div 2 + u * Micro + (3 * Micro) \div 2)

\* idx2Pix without the upper limit of its range check.
idx2PixNoUpper(idx, radius, fp) ==
   IF idx < 0
   THEN [exc |-> "", val |-> None]
   ELSE IF idx = 0 /\ ~fp.newton0
   THEN [exc |-> "RuntimeError: Failed to converge", val |-> None]
   ELSE LET area   == IF idx >= 1 THEN idx - 1 ELSE 1 - idx
            \* alphaOpt < pi
            upper  == idx = 0 \/ 2 * area * Micro < pi * radius * radius
            v0     == IF idx = 1
                      THEN (IF fp.flat1 THEN radius ELSE radius - 1)
                      ELSE IF upper
                      THEN CHOOSE h \in 0..radius :
                              /\ segArea(h, radius) > area * Micro
                              /\ \A g \in (h + 1)..radius :
                                    segArea(g, radius) <= area * Micro
                      ELSE CHOOSE h \in (-radius)..0 :
                              /\ segArea(h, radius) < area * Micro
                              /\ \A g \in (-radius)..(h - 1) :
                                    segArea(g, radius) >= area * Micro
            \* Hack in offset for upper hemicircle
            v      == v0 + (IF upper THEN 1 ELSE 0)
            u      == idx - 1
                      - int(segArea(v, radius) + Micro \div 2)
                      - int(chordLen(v, radius) \div 2 + Micro \div 2)
        IN  [exc |-> "", val |-> Some(<< u + radius, v + radius - 1 >>)]

\* idx2Pix.  scipy's newton, started at alpha0 = pi, solves
\*    2 (idx - 1) / radius^2 + sin(alpha) - alpha = 0,
\* i.e. it looks for the central angle whose segment has area idx - 1, and
\* raises RuntimeError when 50 iterations do not bring two successive
\* iterates within 1.48e-8 of each other.
\*  - For idx >= 2 the iterates move monotonically from pi to the root (the
\*    function is concave on [0, pi] and convex on [pi, 2 pi]) and stop just
\*    short of it, on the side of pi.
\*  - For idx = 1 the root is alpha = 0, approached from above; the iterate
\*    returned is about 3e-8, where cos(alphaOpt / 2) is within one unit in
\*    the last place of 1: whether it rounds to 1 (fp.flat1) or below decides
\*    between int(radius * cos(alphaOpt / 2)) = radius and radius - 1.
\*  - For idx = 0 the root is negative and the iterates have to cross the
\*    stationary point alpha = 0, from the neighbourhood of which they are
\*    thrown far away: fp.newton0 says whether the solve converges (see
\*    NewtonOutcomes).
\* v = int(radius cos(alphaOpt / 2)) is found from the root's defining
\* property: radius cos(alpha / 2) is the height of the chord, and the
\* segment above a chord of height h has area segArea(h, radius).
idx2Pix(idx, radius, fp) ==
   IF idx < 0 \/ idx * Micro > pi * radius * radius
   THEN [exc |-> "", val |-> None]
   ELSE IF idx = 0 /\ ~fp.newton0
   THEN [exc |-> "RuntimeError: Failed to converge", val |-> None]
   ELSE LET area   == IF idx >= 1 THEN idx - 1 ELSE 1 - idx
            \* alphaOpt < pi
            upper  == idx = 0 \/ 2 * area * Micro < pi * radius * radius
            v0     == IF idx = 1
                      THEN (IF fp.flat1 THEN radius ELSE radius - 1)
                      ELSE IF upper
                      THEN CHOOSE h \in 0..radius :
                              /\ segArea(h, radius) > area * Micro
                              /\ \A g \in (h + 1)..radius :
                                    segArea(g, radius) <= area * Micro
                      ELSE CHOOSE h \in (-radius)..0 :
                              /\ segArea(h, radius) < area * Micro
                              /\ \A g \in (-radius)..(h - 1) :
                                    segArea(g, radius) >= area * Micro
            \* Hack in offset for upper hemicircle
            v      == v0 + (IF upper THEN 1 ELSE 0)
            u      == idx - 1
                      - int(segArea(v, radius) + Micro \div 2)
                      - int(chordLen(v, radius) \div 2 + Micro \div 2)
        IN  [exc |-> "", val |-> Some(<< u + radius, v + radius - 1 >>)]

\* The outcomes of the solve for idx = 0.  Carried out in double precision
\* the iteration settles within a dozen steps for the radii 2..6, whatever
\* the last-place rounding of sin and cos; for radius 1 it wanders (0.571,
\* -12.2, 184.9, 86.0, 22.0, 10.0, 3.19, 0.569, ...) and whether it settles
\* within 50 steps turns on that rounding.  Other radii are left open.
NewtonOutcomes(radius) == IF radius \in 2..6 THEN {TRUE} ELSE BOOLEAN

\* vwRay followed by arccos(Dz): with rx = 2 u - 1 and ry = 2 v - 1 the view
\* ray has Dz = cos(pi/2 dr), dr = sqrt(rx^2 + ry^2), so the polar angle
\* arccos(Dz) is pi/2 dr.  For the pixel pix of an image of radius rad the
\* normalised coordinates are 0.5 pix / rad, so dr^2 = dist2 / rad^2 with
\* dist2 the squared pixel distance from the centre (rad, rad).  The angle is
\* kept exactly, as the square of its value in degrees: num / den.
vwRay_theta(pix, rad) ==
   LET dist2 == (pix[1] - rad) * (pix[1] - rad) + (pix[2] - rad) * (pix[2] - rad)
   IN  [num |-> 90 * 90 * dist2, den |-> rad * rad]

\* Dz < 0 for the view ray of the pixel pix: cos(pi/2 dr) < 0, which is
\* dr > 1, the pixel being further than rad from the centre.
Dist2IsOutside(pix, rad) ==
   (pix[1] - rad) * (pix[1] - rad) + (pix[2] - rad) * (pix[2] - rad) > rad * rad

\* ----------------------------- FULL RESOLUTION -----------------------------
\* CLUSTTHETAS = radians(arange(80)): the bin edges, in degrees.
CLUSTTHETAS == [i \in 0..79 |-> i]

\* Whether the computed angle theta equals the bin edge of k degrees in exact
\* arithmetic.  There the floating-point comparison of arccos(cos(pi/2 dr))
\* with radians(k) can go either way.
IsTie(theta, k) == k >= 1 /\ k * k * theta.den = theta.num

\* numpy.digitize(theta, CLUSTTHETAS), without the - 1 for 0-alignment.
digitizeOneBased(theta, down) ==
   Cardinality({k \in DOMAIN CLUSTTHETAS :
                   /\ CLUSTTHETAS[k] * CLUSTTHETAS[k] * theta.den <= theta.num
                   /\ ~(IsTie(theta, CLUSTTHETAS[k]) /\ k \in down)})

\* numpy.digitize(theta, CLUSTTHETAS) - 1: the number of edges <= theta, less
\* one; angles beyond the last edge land in the last bin.  down is the set of
\* edges at which an exact tie compares as theta < edge.
digitize(theta, down) ==
   Cardinality({k \in DOMAIN CLUSTTHETAS :
                   /\ CLUSTTHETAS[k] * CLUSTTHETAS[k] * theta.den <= theta.num
                   /\ ~(IsTie(theta, CLUSTTHETAS[k]) /\ k \in down)}) - 1

\* numpy.flatnonzero(thetaBins == i): the indices k in lo..hi with
\* thetaBins[k] = i, ascending.
RECURSIVE flatnonzero(_, _, _, _)
flatnonzero(thetaBins, i, lo, hi) ==
   IF lo > hi THEN << >>
   ELSE (IF thetaBins[lo] = i THEN << lo >> ELSE << >>)
        \o flatnonzero(thetaBins, i, lo + 1, hi)

\* int(sqrt(numCoeff / pi)), the radius not rounded up: the largest s with
\* pi s^2 <= numCoeff.
FullResRadiusDown(numCoeff) ==
   CHOOSE s \in 0..numCoeff :
      /\ pi * s * s <= numCoeff * Micro
      /\ pi * (s + 1) * (s + 1) > numCoeff * Micro

\* int(sqrt(numCoeff / pi) + 1): one more than the largest s with
\* pi s^2 <= numCoeff.
FullResRadius(numCoeff) ==
   1 + CHOOSE s \in 0..numCoeff :
          /\ pi * s * s <= numCoeff * Micro
          /\ pi * (s + 1) * (s + 1) > numCoeff * Micro

\* The pixel of every bin.
FullResPixels(numCoeff, rad, fp) ==
   [idx \in 0..(numCoeff - 1) |-> idx2Pix(idx, rad, fp)]

\* FullResSymmetry.clusters; fp holds the outcomes of the floating-point
\* steps that turn on last-place rounding: newton0 and flat1 (see idx2Pix)
\* and down (see digitize).  A bin whose pixel is None makes
\* 0.5 * pix / rad raise.
FullResSymmetry_clusters(self, numCoeff, fp) ==
   IF CacheMiss(self, numCoeff)
   THEN LET rad  == FullResRadius(numCoeff)
            new1 == [self EXCEPT !._resolution = Some(rad)]
        IN  The({
           LET failed == {idx \in DOMAIN pixs :
                             pixs[idx].exc # "" \/ pixs[idx].val = None}
           IN  IF failed # {}
               THEN LET first == CHOOSE idx \in failed : \A j \in failed : idx <= j
                    IN  IF pixs[first].exc # ""
                        THEN Raise(new1, pixs[first].exc)
                        ELSE Raise(new1, "TypeError: unsupported operand type(s)")
               ELSE The({
                  The({
                     Return([new1 EXCEPT !._clusters = Some(clust),
                                         !._numCoeff = Some(numCoeff)],
                            clust)
                     : clust \in {ArrayList(
                          [i \in DOMAIN CLUSTTHETAS |->
                             flatnonzero(thetaBins, i, 0, numCoeff - 1)])} })
                  : thetaBins \in {
                       [idx \in DOMAIN pixs |->
                          digitize(vwRay_theta(pixs[idx].val[1], rad), fp.down)]} })
           : pixs \in {FullResPixels(numCoeff, rad, fp)} })
   ELSE Return(self, self._clusters[1])

\* The edges some bin's angle can tie with.
TieEdges(numCoeff) ==
   LET rad == FullResRadius(numCoeff)
   IN  The({ {k \in DOMAIN CLUSTTHETAS :
                \E flat1 \in BOOLEAN : \E idx \in DOMAIN pixs[flat1] :
                   /\ pixs[flat1][idx].val # None
                   /\ IsTie(vwRay_theta(pixs[flat1][idx].val[1], rad),
                            CLUSTTHETAS[k])}
             : pixs \in {[flat1 \in BOOLEAN |->
                            FullResPixels(numCoeff, rad,
                               [newton0 |-> TRUE, flat1 |-> flat1])]} })

NoFloat == [newton0 |-> TRUE, flat1 |-> FALSE, down |-> {}]

\* The outcomes of the floating-point steps open to a clusters(numCoeff)
\* call of the instance self: none unless FullResSymmetry computes afresh.
FloatOutcomes(cls, self, numCoeff) ==
   IF /\ cls = "FullRes"
      /\ numCoeff > 0
      /\ CacheMiss(self, numCoeff)
   THEN {[NoFloat EXCEPT !.newton0 = FALSE] :
            n \in NewtonOutcomes(FullResRadius(numCoeff)) \ {TRUE}}
        \cup [newton0 : NewtonOutcomes(FullResRadius(numCoeff)) \ {FALSE},
              flat1 : IF numCoeff > 1 THEN BOOLEAN ELSE {FALSE},
              down : SUBSET TieEdges(numCoeff)]
   ELSE {NoFloat}

\* ------------------------------- dispatch --------------------------------
clusters(cls, self, numCoeff, fp) ==
   CASE cls = "Klems"         -> KlemsSymmetry_clusters(self, numCoeff)
     [] cls = "ReinhartRot"   -> ReinhartRotSymmetry_clusters(self, numCoeff)
     [] cls = "ReinhartCurve" -> ReinhartCurveSymmetry_clusters(self, numCoeff)
     [] cls = "ReinhartProf"  -> ReinhartProfSymmetry_clusters(self, numCoeff)
     [] cls = "FullRes"       -> FullResSymmetry_clusters(self, numCoeff, fp)

\* ------------------------- SymmetryBase.clusterCoeffs -------------------------
\* A coefficient file is described by its length and the rule for its
\* values: the coefficient of bin k is (step * k + base) % CoeffMod.
CoeffMod == 3

Coeff(coeffFile, k) == (coeffFile.step * k + coeffFile.base) % CoeffMod

\* numpy.loadtxt: the file's values as a one-dimensional array over
\* 0..len-1, except that the array of a single value is squeezed to no
\* dimension at all (ndim = 0), of which len() cannot be taken.
loadtxt(coeffFile) ==
   [ndim |-> IF coeffFile.len = 1 THEN 0 ELSE 1,
    data |-> [k \in 0..(coeffFile.len - 1) |-> Coeff(coeffFile, k)]]

\* [i for (i, c) in enumerate(clustList) if coeffIdx in c], with the lists
\* given as their element sets members[i] (0-based cluster indices).
clustIdx(members, coeffIdx) ==
   {i \in DOMAIN members : coeffIdx \in members[i]}

\* A mean in place of the normalisation: division by the number of clusters.
NormaliseByCount(clustCoeffs) ==
   The({ [i \in 1..Cardinality(DOMAIN c) |->
            [num |-> c[i - 1], den |-> Cardinality(DOMAIN c)]]
         : c \in {clustCoeffs} })

\* clustCoeffs / clustCoeffs.sum(), as a list of quotients.
Normalise(clustCoeffs) ==
   The({ The({ [i \in 1..Cardinality(DOMAIN c) |-> [num |-> c[i - 1], den |-> sum]]
               : sum \in {SumOver(c, DOMAIN c)} })
         : c \in {clustCoeffs} })

\* The loop without its check for a bin that no cluster contains: such a
\* bin is passed over.
AccumulateNoCheck(self, clustList, coeffs) ==
   The({
      LET sizes  == [i \in DOMAIN members |-> Cardinality(members[i])]
          owned  == UNION {members[i] : i \in DOMAIN members}
          shared == IF SumOver(sizes, DOMAIN sizes) = Cardinality(owned) THEN {}
                    ELSE {k \in DOMAIN coeffs :
                            Cardinality(clustIdx(members, k)) > 1}
      IN  IF shared # {}
          THEN [self |-> self,
                exc |-> "ValueError: bin assigned to mutiple clusters",
                val |-> << CHOOSE b \in shared : \A c \in shared : b <= c >>]
          ELSE Return(self, Normalise(
                  [i \in DOMAIN members |->
                     SumOver(coeffs, members[i] \cap DOMAIN coeffs)]))
      : members \in {[i \in 0..(Len(clustList) - 1) |-> Elems(clustList[i + 1])]} })

\* The loop over the coefficients and the final normalisation.  The loop
\* raises at the first bin, in index order, that is in no cluster or in
\* more than one; the sums accumulated until then are dropped with it.
\* When it passes, every bin has been added to the one cluster that lists
\* it, so clustCoeffs[i] is the sum over the bins of cluster i.  (No bin is
\* shared when the clusters' sizes add up to the size of their union.)
Accumulate(self, clustList, coeffs) ==
   The({
      LET owned    == UNION {members[i] : i \in DOMAIN members}
          unowned  == (DOMAIN coeffs) \ owned
          sizes    == [i \in DOMAIN members |-> Cardinality(members[i])]
          shared   == IF SumOver(sizes, DOMAIN sizes) = Cardinality(owned) THEN {}
                      ELSE {k \in DOMAIN coeffs :
                              Cardinality(clustIdx(members, k)) > 1}
          bad      == unowned \cup shared
      IN  IF bad # {}
          THEN LET k == CHOOSE b \in bad : \A c \in bad : b <= c
               IN  IF k \in unowned
                   THEN [self |-> self, exc |-> "ValueError: bin not found",
                         val |-> << k >>]
                   ELSE [self |-> self,
                         exc |-> "ValueError: bin assigned to mutiple clusters",
                         val |-> << k >>]
          ELSE Return(self, Normalise(
                  [i \in DOMAIN members |->
                     SumOver(coeffs, members[i] \cap DOMAIN coeffs)]))
      : members \in {[i \in 0..(Len(clustList) - 1) |-> Elems(clustList[i + 1])]} })

\* clusterCoeffs without its check for an empty vector.
SymmetryBase_clusterCoeffsUnchecked(cls, self, coeffFile, fp) ==
   The({
      IF coeffs.ndim = 0
      THEN Raise(self, "TypeError: len() of unsized object")
      ELSE The({
              IF c.exc # "" THEN c
              ELSE Accumulate(c.self, c.val, coeffs.data)
              : c \in {clusters(cls, self, Cardinality(DOMAIN coeffs.data), fp)} })
      : coeffs \in {loadtxt(coeffFile)} })

SymmetryBase_clusterCoeffs(cls, self, coeffFile, fp) ==
   The({
      IF coeffs.ndim = 0
      THEN Raise(self, "TypeError: len() of unsized object")
      ELSE LET numCoeff == Cardinality(DOMAIN coeffs.data)
           IN  IF numCoeff = 0
               THEN Raise(self, "ValueError: failed reading coefficients")
               ELSE The({
                  IF c.exc # "" THEN c
                  ELSE Accumulate(c.self, c.val, coeffs.data)
                  : c \in {clusters(cls, self, numCoeff, fp)} })
      : coeffs \in {loadtxt(coeffFile)} })

\* --------------------------- reinhartSolidAngles ---------------------------
\* Angles are kept as integers in units of half the polar increment alpha:
\* linspace(-pi/2, pi/2, num) has the points (2 j - (num - 1)) alpha / 2 for
\* j = 0..num-1.  A solid angle or cosine is kept as the pair of what it is
\* computed from: the polar angle of the bin's midpoint (of the cap's rim
\* for bin 0) and the number of azimuth divisions of the bin's row.
linspace(num) == [j \in 0..(num - 1) |-> 2 * j - (num - 1)]

\* The azimuth divisions with the last row of 30 taken as 24.
azimuthDivs24(MF) ==
   LET tdivs == << 6, 12, 18, 24, 24, 30, 24 >>
   IN  [t \in 0..(7 * MF) |->
          IF t = 0 THEN 1 ELSE MF * tdivs[((t - 1) \div MF) + 1]]

\* [1] + [MF * i for i in [6, 12, 18, 24, 24, 30, 30] for r in range(MF)]
azimuthDivs(MF) ==
   LET tdivs == << 6, 12, 18, 24, 24, 30, 30 >>
   IN  [t \in 0..(7 * MF) |->
          IF t = 0 THEN 1 ELSE MF * tdivs[((t - 1) \div MF) + 1]]

\* [value(t) for t in range(lo, hi) for p in range(divs[t])], as a list of
\* the rows t.
RECURSIVE BinRows(_, _, _)
BinRows(divs, lo, hi) ==
   IF lo >= hi THEN << >>
   ELSE [p \in 1..divs[lo] |-> lo] \o BinRows(divs, lo + 1, hi)

reinhartSolidAngles(MF) ==
   LET nBins    == MF * MF * 144 + 1
       points   == linspace(2 * MF * 7 + 2)
       positive == {j \in DOMAIN points : points[j] > 0}
   IN  The({
          LET \* concatenate([zeros(1), polarAngles[polarAngles > 0]])
              polarAngles == [t \in 0..(nPolar - 1) |->
                                IF t = 0 THEN 0 ELSE points[first + t - 1]]
              divs        == azimuthDivs(MF)
              polarAngM   == [t \in 0..(nPolar - 2) |->
                                IF t = 0 THEN 0
                                ELSE (polarAngles[t] + polarAngles[t + 1]) \div 2]
          IN  The({
                 IF Len(rows) # nBins - 1
                 THEN [exc |-> "ValueError: could not broadcast input array",
                       val |-> << >>]
                 ELSE LET value(k) ==
                             IF k = 0
                             THEN [polar |-> polarAngles[1], div |-> 1]
                             ELSE [polar |-> polarAngM[rows[k]],
                                   div |-> divs[rows[k]]]
                          \* dOmega[::-1], cosOmega[::-1]
                          dOmega   == [k \in 0..(nBins - 1) |->
                                         value(nBins - 1 - k)]
                          cosOmega == [k \in 0..(nBins - 1) |->
                                         value(nBins - 1 - k).polar]
                      IN  [exc |-> "", val |-> << dOmega, cosOmega >>]
                 : rows \in {BinRows(divs, 1, nPolar - 1)} })
          : first \in {CHOOSE j \in positive : \A k \in positive : j <= k},
            nPolar \in {1 + Cardinality(positive)} })

\* The numbers the pairs stand for.  sin and cos are computed by rotating
\* the vector (1, 0), held in units of 1e-9 (CordicScale) and shortened
\* beforehand by the gain of the rotations (CordicGain), through the angle in
\* steps of arctan(2^-i): the result is (cos, sin) to about 1e-5.
CordicScale == 1000000000

CordicGain == 607252935

RECURSIVE CordicRot(_, _, _, _)
CordicRot(x, y, z, i) ==
   IF i > Len(atanTable) THEN << x, y >>
   ELSE LET p == 2 ^ (i - 1)
        IN  IF z >= 0
            THEN CordicRot(x - (y \div p), y + (x \div p), z - atanTable[i], i + 1)
            ELSE CordicRot(x + (y \div p), y - (x \div p), z + atanTable[i], i + 1)

\* The angle of `polar` half-increments alpha / 2, alpha = pi / (14 MF + 1)
\* being the step of the linspace, in units of 1e-6.
PolarAngle(polar, MF) == (polar * pi) \div (2 * (14 * MF + 1))

\* cos and sin of an angle in [0, pi/2], in units of 1e-6.
cos(a) == CordicRot(CordicGain, 0, a, 1)[1] \div 1000

sin(a) == CordicRot(CordicGain, 0, a, 1)[2] \div 1000

\* x * c for x in units of 1e-8 (below 5e6) and c in units of 1e-6 (at most
\* 1e6), in units of 1e-8: the product is taken in two parts to stay within
\* 31 bits.
MulMicro(x, c) ==
   ((x \div 1000) * (c \div 10)) \div 100 + ((x % 1000) * (c \div 1000)) \div 1000

\* The solid angle of a bin with the cosine of the polar angle in place of
\* its sine: the projection on the azimuthal plane taken on the wrong axis.
dOmegaValueCos(v, MF) ==
   IF v.polar = 1
   THEN (((CordicScale - CordicRot(CordicGain, 0, PolarAngle(1, MF), 1)[1])
            \div 100) * 6283) \div 100
   ELSE The({ (cs * 1973 + (cs * 921) \div 1000) \div ((14 * MF + 1) * v.div)
              : cs \in {cos(PolarAngle(v.polar, MF))} })

\* The solid angle of a bin, in units of 1e-8.
\*  - cap (div = 1 at polar = 1):  2 pi (1 - cos(polarAngles[1])), with
\*    1 - cos taken in units of 1e-9;
\*  - rows:  sin(polarAngM[t]) alpha 2 pi / azimuthDivs[t], where
\*    alpha 2 pi = 2 pi^2 / (14 MF + 1) and 2 pi^2 = 19.73921.
dOmegaValue(v, MF) ==
   IF v.polar = 1
   THEN (((CordicScale - CordicRot(CordicGain, 0, PolarAngle(1, MF), 1)[1])
            \div 100) * 6283) \div 100
   ELSE The({ (sn * 1973 + (sn * 921) \div 1000) \div ((14 * MF + 1) * v.div)
              : sn \in {sin(PolarAngle(v.polar, MF))} })

\* The cosine of a bin, in units of 1e-6.
\*  - cap:  pi (1 - cos^2) / dOmega[0] = (1 + cos(polarAngles[1])) / 2;
\*  - rows: cos(polarAngM[t]).
cosOmegaValue(polar, MF) ==
   IF polar = 1
   THEN (Micro + cos(PolarAngle(1, MF))) \div 2
   ELSE cos(PolarAngle(polar, MF))

\* __main__ of reinhartSolidAngles.py: the number of bins, dOmega.sum() and
\* (dOmega * cosOmega).sum(), the sums in units of 1e-8.
reinhartSolidAngles_main(MF) ==
   The({
      IF r.exc # "" THEN r
      ELSE The({
         [exc |-> "",
          val |-> [bins |-> Cardinality(DOMAIN d),
                   sum  |-> SumOver(d, DOMAIN d),
                   sumProjected |->
                      SumOver([k \in DOMAIN d |->
                                 MulMicro(d[k], cosOmegaValue(r.val[2][k], MF))],
                              DOMAIN d)]]
         : d \in {[k \in DOMAIN r.val[1] |-> dOmegaValue(r.val[1][k], MF)]} })
      : r \in {reinhartSolidAngles(MF)} })

\* ------------------------------- the inputs -------------------------------
\* The basis sizes offered to each policy: the sizes it is written for,
\* their neighbours, and sizes written for another policy.
ReinhartSizes == {144 * m * m + 1 : m \in 0..MaxMF}

NumCoeffs(cls) ==
   CASE cls = "Klems"         -> {1, 144, 145, 146}
     [] cls = "ReinhartRot"   -> ReinhartSizes \cup {2, 146}
     [] cls = "ReinhartCurve" -> {1, 145, 2305, 2306, 3601}
     [] cls = "ReinhartProf"  -> {2, 145, 2305, 2306}
     [] cls = "FullRes"       -> {1, 4, MaxFullRes}

\* The coefficient files offered: every length clusters is offered, and the
\* empty file, each with all values zero and with values 1, 2, 0, 1, 2, 0, ...
NoFile == [len |-> 0, step |-> 0, base |-> 0]

CoeffFiles(cls) ==
   {[len |-> n, step |-> p, base |-> p] : n \in NumCoeffs(cls) \cup {0}, p \in 0..1}

\* ------------------------------ the machine ------------------------------
\* klass: the class attributes of SymmetryBase, which every subclass
\*        inherits and no subclass redefines;
\* symm, inst: the policy class of the instance under study and the
\*        attributes set on the instance itself (None: not set);
\* peer:  a second instance, its policy class and its own attributes;
\* ret:   the last call made and its outcome;
\* run:   the run of gdivclust.py as a script, when there is one.
VARIABLES symm, inst, ret, klass, peer, run

vars == << symm, inst, ret, klass, peer, run >>

\* The attributes of an instance nothing has been assigned to.
NoAttrs == [f \in DOMAIN SymmetryBase |-> None]

\* Reading self._x: the attribute set on the instance, or else the class
\* attribute.
getattr(cls_attrs, dict) ==
   [f \in DOMAIN dict |-> IF dict[f] # None THEN dict[f] ELSE cls_attrs[f]]

\* The assignments of a method written to the class: self._x = ... taken
\* as SymmetryBase._x = ...
setattrOnClass(cls_attrs, dict, before, after) ==
   [klass |-> [f \in DOMAIN cls_attrs |->
                 IF after[f] # before[f] THEN after[f] ELSE cls_attrs[f]],
    dict  |-> dict]

\* The assignments self._x = ... of a method that found the attributes
\* before and left them after: each is made on the instance, the class
\* attributes stay as they are.
setattr(cls_attrs, dict, before, after) ==
   [klass |-> cls_attrs,
    dict  |-> [f \in DOMAIN dict |->
                 IF after[f] # before[f] THEN after[f] ELSE dict[f]]]

NoCall ==
   [on |-> "", op |-> "", numCoeff |-> 0, coeffFile |-> NoFile,
    exc |-> "", val |-> << >>]

\* No run of the script.
NoRun ==
   [pc |-> "", argv |-> << >>, outFile |-> None, existed |-> FALSE,
    numClust |-> 0, i |-> 0, clustArr |-> << >>, calls |-> << >>,
    status |-> 0]

Init ==
   /\ symm \in Policies
   /\ klass = SymmetryBase
   /\ inst = NoAttrs
   /\ peer = [symm |-> symm, dict |-> NoAttrs]
   /\ ret = NoCall
   /\ run = NoRun

\* The instance a call is made on.
Self(on) == IF on = "inst" THEN [symm |-> symm, dict |-> inst] ELSE peer

\* The end of a call on the instance `on` that found the attributes
\* `before` and has the outcome r.
Store(on, before, r, op, numCoeff, coeffFile) ==
   \E w \in {setattr(klass, Self(on).dict, before, r.self)} :
      /\ klass' = w.klass
      /\ IF on = "inst"
         THEN inst' = w.dict /\ UNCHANGED peer
         ELSE peer' = [peer EXCEPT !.dict = w.dict] /\ UNCHANGED inst
      /\ ret' = [on |-> on, op |-> op, numCoeff |-> numCoeff,
                 coeffFile |-> coeffFile, exc |-> r.exc, val |-> r.val]
      /\ UNCHANGED symm

ClustersOn(on, numCoeff) ==
   \E self \in {getattr(klass, Self(on).dict)} :
      \E fp \in FloatOutcomes(Self(on).symm, self, numCoeff) :
         \E r \in {clusters(Self(on).symm, self, numCoeff, fp)} :
            Store(on, self, r, "clusters", numCoeff, NoFile)

ClusterCoeffsOn(on, coeffFile) ==
   \E self \in {getattr(klass, Self(on).dict)} :
      \E fp \in FloatOutcomes(Self(on).symm, self,
                               IF coeffFile.len = 1 THEN 0 ELSE coeffFile.len) :
         \E r \in {SymmetryBase_clusterCoeffs(Self(on).symm, self, coeffFile, fp)} :
            Store(on, self, r, "clusterCoeffs", coeffFile.len, coeffFile)

\* The subclasses of ReinhartSymmetry, which have its method patches.
ReinhartPolicies == {"ReinhartRot", "ReinhartCurve", "ReinhartProf"}

PatchesOn(on, numCoeff) ==
   /\ Self(on).symm \in ReinhartPolicies
   /\ \E self \in {getattr(klass, Self(on).dict)} :
         \E r \in {ReinhartSymmetry_patches(self, numCoeff)} :
            Store(on, self, r, "patches", numCoeff, NoFile)

Clusters(numCoeff) == ClustersOn("inst", numCoeff) /\ UNCHANGED run

ClusterCoeffs(coeffFile) == ClusterCoeffsOn("inst", coeffFile) /\ UNCHANGED run

Patches(numCoeff) == PatchesOn("inst", numCoeff) /\ UNCHANGED run

Next ==
   \/ \E numCoeff \in NumCoeffs(symm) : Clusters(numCoeff)
   \/ \E coeffFile \in CoeffFiles(symm) : ClusterCoeffs(coeffFile)
   \/ \E numCoeff \in NumCoeffs(symm) : Patches(numCoeff)

Spec == Init /\ [][Next]_vars

\* ----------------------------- two instances -----------------------------
\* Calls on two instances of any two policy classes.  Each policy is
\* offered the size it is written for and one other size (one size is all
\* ReinhartProfSymmetry tells apart).
PairNumCoeffs(cls) ==
   CASE cls = "Klems"         -> {145, 146}
     [] cls = "ReinhartRot"   -> {145, 577}
     [] cls = "ReinhartCurve" -> {2305, 146}
     [] cls = "ReinhartProf"  -> {2305}
     [] cls = "FullRes"       -> {3, 4}

PairCoeffFiles(cls) ==
   {[len |-> n, step |-> 1, base |-> 1] : n \in PairNumCoeffs(cls)}

InitPair ==
   /\ symm \in Policies
   /\ klass = SymmetryBase
   /\ inst = NoAttrs
   /\ peer \in [symm : Policies, dict : {NoAttrs}]
   /\ ret = NoCall
   /\ run = NoRun

PeerClusters(numCoeff) == ClustersOn("peer", numCoeff) /\ UNCHANGED run

PeerClusterCoeffs(coeffFile) == ClusterCoeffsOn("peer", coeffFile) /\ UNCHANGED run

PeerPatches(numCoeff) == PatchesOn("peer", numCoeff) /\ UNCHANGED run

NextPair ==
   \/ \E numCoeff \in PairNumCoeffs(symm) : Clusters(numCoeff)
   \/ \E coeffFile \in PairCoeffFiles(symm) : ClusterCoeffs(coeffFile)
   \/ \E numCoeff \in PairNumCoeffs(symm) : Patches(numCoeff)
   \/ \E numCoeff \in PairNumCoeffs(peer.symm) : PeerClusters(numCoeff)
   \/ \E coeffFile \in PairCoeffFiles(peer.symm) : PeerClusterCoeffs(coeffFile)
   \/ \E numCoeff \in PairNumCoeffs(peer.symm) : PeerPatches(numCoeff)

SpecPair == InitPair /\ [][NextPair]_vars

\* ---------------------- calls of module-level functions ----------------------
\* Calls of the functions that touch no instance.  Those of
\* gdivmeas_fullres, on images of radius 1..MaxRadius: pix2Idx on every
\* pixel of the image's bounding square and one pixel beyond it, idx2Pix on
\* every index from -1 to two past pi radius^2, and idx2Pix on the index
\* pix2Idx has just returned (as the diagnostics of getCoeffs do).  And
\* reinhartSolidAngles on the subdivision factors 1..MaxMF.
Radii == 1..MaxRadius

Pixels(radius) == (-1..(2 * radius + 1)) \X (-1..(2 * radius + 1))

Indices(radius) == -1..((pi * radius * radius) \div Micro + 2)

\* The outcomes of the floating-point steps open to idx2Pix(idx, radius).
PixFloatOutcomes(idx, radius) ==
   [newton0 : IF idx = 0 THEN NewtonOutcomes(radius) ELSE {TRUE},
    flat1   : IF idx = 1 THEN BOOLEAN ELSE {FALSE},
    down    : {{}}]

InitPix ==
   /\ symm = "FullRes"
   /\ klass = SymmetryBase
   /\ inst = NoAttrs
   /\ peer = [symm |-> symm, dict |-> NoAttrs]
   /\ ret = NoCall
   /\ run = NoRun

Pix2Idx(pix, radius) ==
   /\ ret' = [on |-> "", op |-> "pix2Idx", pix |-> pix, radius |-> radius,
              exc |-> "", val |-> pix2Idx(pix, radius)]
   /\ UNCHANGED << symm, inst, klass, peer, run >>

\* from: the pixel whose index idx is, when the call is made on the index
\* pix2Idx returned for it.
Idx2PixCall(idx, radius, from) ==
   \E fp \in PixFloatOutcomes(idx, radius) :
      \E r \in {idx2Pix(idx, radius, fp)} :
         /\ ret' = [on |-> "", op |-> "idx2Pix", idx |-> idx,
                    radius |-> radius, from |-> from, newton |-> fp.newton0,
                    exc |-> r.exc, val |-> r.val]
         /\ UNCHANGED << symm, inst, klass, peer, run >>

Idx2Pix(idx, radius) == Idx2PixCall(idx, radius, None)

Idx2PixBack ==
   /\ ret.op = "pix2Idx"
   /\ ret.val >= 0
   /\ Idx2PixCall(ret.val, ret.radius, Some(ret.pix))

ReinhartSolidAngles(MF) ==
   /\ \E r \in {reinhartSolidAngles(MF)} :
         ret' = [on |-> "", op |-> "reinhartSolidAngles", MF |-> MF,
                 exc |-> r.exc, val |-> r.val]
   /\ UNCHANGED << symm, inst, klass, peer, run >>

\* A run of reinhartSolidAngles.py as a script, with argument MF: the
\* first thing to happen in its process.
Main(MF) ==
   /\ ret.op = NoCall.op
   /\ \E r \in {reinhartSolidAngles_main(MF)} :
         ret' = [on |-> "", op |-> "main", MF |-> MF,
                 exc |-> r.exc, val |-> r.val]
   /\ UNCHANGED << symm, inst, klass, peer, run >>

\* The elements of a set of integers as an ascending sequence.
RECURSIVE Ascending(_)
Ascending(S) ==
   IF S = {} THEN << >>
   ELSE LET m == CHOOSE x \in S : \A y \in S : x <= y
        IN  << m >> \o Ascending(S \ {m})

\* The pixels pvalue lists for an image of res x res pixels.
ImagePixels(res) == (0..(res - 1)) \X (0..(res - 1))

\* getCoeffs on an image of res x res pixels, as far as the order of its
\* output goes.  rad = int(0.5 * res); the arrays have numIdx =
\* int(pi * rad^2 + 0.5) bins, marked empty; each pixel with idx =
\* pix2Idx(pix, rad) >= 0 stores its contribution in bin idx (an idx past
\* the arrays raises, a pixel outside the field of view raises); the empty
\* bins are then dropped, and the remaining ones written in ascending
\* order, or nothing is written when none remains.  The value is the
\* sequence written: for each position the bin it comes from and the
\* pixels that stored into that bin (the last of them, in pvalue's order,
\* is the one whose contribution stays).
getCoeffs(res) ==
   The({
      LET rad    == res \div 2
          numIdx == int(pi * rad * rad + Micro \div 2)
          valid  == {pix \in DOMAIN idxOf : idxOf[pix] >= 0}
      IN  IF \E pix \in valid : idxOf[pix] >= numIdx
          THEN [exc |-> "IndexError: index out of bounds", val |-> None]
          ELSE IF \E pix \in valid : Dist2IsOutside(pix, rad)
          THEN [exc |-> "Exception: Valid index outside FoV", val |-> None]
          ELSE [exc |-> "",
                val |-> The({ [i \in DOMAIN nonEmpty |->
                                 [idx  |-> nonEmpty[i],
                                  pixs |-> {pix \in valid : idxOf[pix] = nonEmpty[i]}]]
                     : nonEmpty \in {Ascending({idxOf[pix] : pix \in valid})} })]
      : idxOf \in {[pix \in ImagePixels(res) |-> pix2Idx(pix, res \div 2)]} })

\* The image resolutions offered: those of radius 0..MaxRadius.
Resolutions == 1..(2 * MaxRadius + 1)

\* A run of gdivmeas_fullres.py on one image: getCoeffs keeps nothing
\* from one image to the next, so one call is followed.
GetCoeffs(res) ==
   /\ ret.op = NoCall.op
   /\ \E r \in {getCoeffs(res)} :
         ret' = [on |-> "", op |-> "getCoeffs", res |-> res, rad |-> res \div 2,
                 exc |-> r.exc, val |-> r.val]
   /\ UNCHANGED << symm, inst, klass, peer, run >>

NextPix ==
   \/ \E radius \in Radii : \E pix \in Pixels(radius) : Pix2Idx(pix, radius)
   \/ \E radius \in Radii : \E idx \in Indices(radius) : Idx2Pix(idx, radius)
   \/ Idx2PixBack
   \/ \E MF \in 1..MaxMF : ReinhartSolidAngles(MF)
   \/ \E MF \in 1..MaxSumMF : Main(MF)
   \/ \E res \in Resolutions : GetCoeffs(res)

SpecPix == InitPix /\ [][NextPix]_vars

\* ------------------------------ gdivclust.py ------------------------------
\* A run of gdivclust.py as a script.  run.argv holds argv[1:-1], the
\* coefficient files; run.outFile is what the file system has at argv[-1]
\* (None: nothing); run.pc is the position in the script; run.calls lists
\* the calls of symm.clusterCoeffs made so far, with their outcomes.
\* symm is the module's one instance: a FullResSymmetry, or, with the
\* other assignment of the script enabled, a ReinhartRotSymmetry.
MaxCoeffFiles == 2

DriverPolicies == {"FullRes", "ReinhartRot"}

\* The files named on the command line: of the two sizes of PairNumCoeffs
\* or empty, all values zero or 1, 2, 0, 1, 2, 0, ...
DriverCoeffFiles(cls) ==
   {[len |-> n, step |-> p, base |-> p] : n \in PairNumCoeffs(cls) \cup {0}, p \in 0..1}

\* A file the run did not write.
Other == [by |-> "other", rows |-> << >>]

InitDriver ==
   /\ symm \in DriverPolicies
   /\ klass = SymmetryBase
   /\ inst = NoAttrs
   /\ peer = [symm |-> symm, dict |-> NoAttrs]
   /\ ret = NoCall
   /\ \E n \in 0..MaxCoeffFiles : \E argv \in [1..n -> DriverCoeffFiles(symm)] :
         \E outFile \in {None, Some(Other)} :
            run = [NoRun EXCEPT !.pc = "main", !.argv = argv,
                                !.outFile = outFile, !.existed = outFile # None]

\* os.path.exists on no file at all.
os_path_existsNever(file) == FALSE

os_path_exists(file) == file # None

\* exit(status), and the end of the script (status 0).
Exit(status) == run' = [run EXCEPT !.pc = "exit", !.status = status]

\* The start of the script: the usage message when no coefficient file is
\* named, then the check of the output file.
DriverMain ==
   /\ run.pc = "main"
   /\ IF Len(run.argv) + 2 < 3
      THEN Exit(-1)
      ELSE IF os_path_exists(run.outFile)
           THEN Exit(-1)
           ELSE run' = [run EXCEPT !.pc = "count"]
   /\ UNCHANGED << symm, inst, ret, klass, peer >>

\* np.zeros((numCoeffFiles, numClust))
zeros(numCoeffFiles, numClust) ==
   [i \in 1..numCoeffFiles |-> [j \in 1..numClust |-> [num |-> 0, den |-> 1]]]

\* numClust = len(symm.clusterCoeffs(argv[1])) and the allocation of
\* clustArr.  The call stands outside the try: its exception ends the run
\* with a traceback and status 1.
DriverCount ==
   /\ run.pc = "count"
   /\ ClusterCoeffsOn("inst", run.argv[1])
   /\ IF ret'.exc # ""
      THEN run' = [run EXCEPT !.pc = "exit", !.status = 1,
                              !.calls = Append(@, ret')]
      ELSE run' = [run EXCEPT !.pc = "loop", !.numClust = Len(ret'.val),
                              !.clustArr = zeros(Len(run.argv), Len(ret'.val)),
                              !.calls = Append(@, ret')]

\* The try body with "except: pass": the row of a file that failed stays
\* as it is.
TryBodyPass(r, clustArr, numClust, i) ==
   IF r.exc # "" \/ Len(r.val) # numClust
   THEN [exc |-> "", clustArr |-> clustArr]
   ELSE [exc |-> "", clustArr |-> [clustArr EXCEPT ![i + 1] = r.val]]

\* The body of the try for file i (0-based), given the outcome r of
\* symm.clusterCoeffs(coeffFile): the exception to handle, if any, and
\* clustArr.
TryBody(r, clustArr, numClust, i) ==
   IF r.exc # ""
   THEN [exc |-> r.exc, clustArr |-> clustArr]
   ELSE IF << Len(clustArr), numClust >> # << Len(clustArr), Len(r.val) >>
        THEN [exc |-> "ValueError: Cluster dimensions don't match coefficient files",
              clustArr |-> clustArr]
        ELSE [exc |-> "", clustArr |-> [clustArr EXCEPT ![i + 1] = r.val]]

\* One iteration of the loop over the coefficient files; the handler of
\* the try prints the error and exits with -1.
DriverLoop ==
   /\ run.pc = "loop"
   /\ run.i < Len(run.argv)
   /\ ClusterCoeffsOn("inst", run.argv[run.i + 1])
   /\ \E t \in {TryBody(ret', run.clustArr, run.numClust, run.i)} :
         IF t.exc # ""
         THEN run' = [run EXCEPT !.pc = "exit", !.status = -1,
                                 !.calls = Append(@, ret')]
         ELSE run' = [run EXCEPT !.i = @ + 1, !.clustArr = t.clustArr,
                                 !.calls = Append(@, ret')]

\* np.savetxt(argv[-1], clustArr), after the loop.
DriverSave ==
   /\ run.pc = "loop"
   /\ run.i = Len(run.argv)
   /\ run' = [run EXCEPT !.pc = "exit", !.status = 0,
                         !.outFile = Some([by |-> "savetxt", rows |-> run.clustArr])]
   /\ UNCHANGED << symm, inst, ret, klass, peer >>

NextDriver ==
   \/ DriverMain
   \/ DriverCount
   \/ DriverLoop
   \/ DriverSave

SpecDriver == InitDriver /\ [][NextDriver]_vars

\* ------------------------------ properties ------------------------------
\* The lists of clustList repeat no index, within or across lists, and
\* hold exactly the indices 0..n-1: their union is 0..n-1 and their lengths
\* add up to n.
IsPartition(clustList, n) ==
   /\ UNION {Elems(clustList[i]) : i \in DOMAIN clustList} = 0..(n - 1)
   /\ SumOver([i \in DOMAIN clustList |-> Len(clustList[i])], DOMAIN clustList) = n

\* The list c is a contiguous, ascending, non-empty index range.
IsRange(c) == Len(c) >= 1 /\ \A j \in 1..(Len(c) - 1) : c[j + 1] = c[j] + 1

\* The sum of all the coefficients of a file.
Total(coeffFile) ==
   SumOver([k \in 0..(coeffFile.len - 1) |-> Coeff(coeffFile, k)],
           0..(coeffFile.len - 1))

\* The sum of the coefficients of the bins a list names, one term per entry.
MemberSum(coeffFile, c) ==
   SumOver([j \in DOMAIN c |-> Coeff(coeffFile, c[j])], DOMAIN c)

C2_Klems ==
   (symm = "Klems" /\ ret.op = "clusters" /\ ret.numCoeff = 145)
   => /\ ret.exc = ""
      /\ ret.val = << << 0 >>, [j \in 1..44 |-> j], [j \in 1..48 |-> 44 + j],
                      [j \in 1..52 |-> 92 + j] >>
      /\ << Len(ret.val[1]), Len(ret.val[2]), Len(ret.val[3]), Len(ret.val[4]) >>
            = << 1, 44, 48, 52 >>
      /\ IsPartition(ret.val, 145)

\* KlemsSymmetry.clusters(145) has returned.
C2_Witness ==
   symm = "Klems" /\ ret.op = "clusters" /\ ret.numCoeff = 145 /\ ret.exc = ""

\* C3: for MF >= 1 and numCoeff = 144 MF^2 + 1, ReinhartRotSymmetry.clusters
\* returns 7 MF + 1 clusters: first the polar cap, the single last index, then
\* one cluster per row from the cap outwards, row r from the horizon holding
\* MF * [30,30,24,24,18,12,6][r div MF] bins; each cluster is a contiguous
\* index range, and the clusters are disjoint and cover 0..numCoeff-1.
C3_Rot ==
   \A MF \in 1..MaxMF :
      (symm = "ReinhartRot" /\ ret.op = "clusters"
       /\ ret.numCoeff = 144 * MF * MF + 1)
      => /\ ret.exc = ""
         /\ Len(ret.val) = 7 * MF + 1
         /\ ret.val[1] = << 144 * MF * MF >>
         /\ \A k \in 1..(7 * MF) :
               Len(ret.val[k + 1])
                  = MF * << 30, 30, 24, 24, 18, 12, 6 >>[((7 * MF - k) \div MF) + 1]
         /\ \A i \in DOMAIN ret.val : IsRange(ret.val[i])
         /\ IsPartition(ret.val, ret.numCoeff)

\* ReinhartRotSymmetry.clusters has returned for a subdivision factor above 1.
C3_Witness ==
   /\ symm = "ReinhartRot" /\ ret.op = "clusters" /\ ret.exc = ""
   /\ \E MF \in 2..MaxMF : ret.numCoeff = 144 * MF * MF + 1

\* C4: ReinhartProfSymmetry.clusters(2305) returns 13 lists in which every
\* index of 0..2304 occurs exactly once: none is missing, none is repeated
\* within or across lists, none lies outside the range.
C4_Prof ==
   (symm = "ReinhartProf" /\ ret.op = "clusters" /\ ret.numCoeff = 2305)
   => /\ ret.exc = ""
      /\ Len(ret.val) = 13
      /\ IsPartition(ret.val, 2305)

\* ReinhartProfSymmetry.clusters(2305) has returned.
C4_Witness ==
   /\ symm = "ReinhartProf" /\ ret.op = "clusters" /\ ret.numCoeff = 2305
   /\ ret.exc = ""

\* The 29 rows of the basis of 2305 bins (MF = 4), counted from the polar
\* cap: the cap, then 4 rows each of 24, 48 and 72 bins and 8 rows each of
\* 96 and 120 bins, the cap holding the last index and every further row the
\* indices just below the row before it.
CurveRowSize(row) ==
   IF row = 0 THEN 1
   ELSE 4 * << 6, 12, 18, 24, 24, 30, 30 >>[((row - 1) \div 4) + 1]

CurveRow(row) ==
   LET above == SumOver([k \in 0..row |-> CurveRowSize(k)], 0..row)
   IN  (2305 - above)..(2305 - above + CurveRowSize(row) - 1)

\* First and last row of each of the 15 clusters.
CurveGroups ==
   << << 0, 0 >>, << 1, 1 >>, << 2, 2 >>, << 3, 3 >>, << 4, 4 >>, << 5, 7 >>,
      << 8, 10 >>, << 11, 13 >>, << 14, 14 >>, << 15, 15 >>, << 16, 16 >>,
      << 17, 17 >>, << 18, 18 >>, << 19, 20 >>, << 21, 28 >> >>

\* C5: ReinhartCurveSymmetry.clusters(2305) returns exactly 15 clusters, the
\* unions of the rows 0, 1, 2, 3, 4, 5-7, 8-10, 11-13, 14, 15, 16, 17, 18,
\* 19-20 and 21-28 (of the 29 rows counted from the polar cap), which are
\* pairwise disjoint and cover 0..2304 exactly.
C5_Curve ==
   (symm = "ReinhartCurve" /\ ret.op = "clusters" /\ ret.numCoeff = 2305)
   => /\ ret.exc = ""
      /\ Len(ret.val) = 15
      /\ \A i \in 1..15 :
            Elems(ret.val[i])
               = UNION {CurveRow(row) : row \in CurveGroups[i][1]..CurveGroups[i][2]}
      /\ IsPartition(ret.val, 2305)

\* ReinhartCurveSymmetry.clusters(2305) has returned.
C5_Witness ==
   /\ symm = "ReinhartCurve" /\ ret.op = "clusters" /\ ret.numCoeff = 2305
   /\ ret.exc = ""

\* C6: for every numCoeff >= 1, FullResSymmetry.clusters(numCoeff) returns
\* exactly 80 clusters, and every bin of 0..numCoeff-1 is in exactly one.
C6_FullRes ==
   (symm = "FullRes" /\ ret.op = "clusters" /\ ret.numCoeff >= 1)
   => /\ ret.exc = ""
      /\ Len(ret.val) = 80
      /\ IsPartition(ret.val, ret.numCoeff)

\* C7: whenever clusters(numCoeff) returns, under any policy, the clusters
\* returned are pairwise disjoint and their union is exactly 0..numCoeff-1.
C7_ReturnedPartition ==
   (ret.op = "clusters" /\ ret.exc = "") => IsPartition(ret.val, ret.numCoeff)

\* The bins of 0..n-1 that no list of clustList contains, and those that
\* more than one contains.
Unowned(clustList, n) ==
   (0..(n - 1)) \ UNION {Elems(clustList[i]) : i \in DOMAIN clustList}

Shared(clustList, n) ==
   The({ (0..(n - 1)) \cap
            UNION {members[ij[1]] \cap members[ij[2]] :
                     ij \in {p \in (DOMAIN members) \X (DOMAIN members) :
                               p[1] < p[2]}}
         : members \in {[i \in DOMAIN clustList |-> Elems(clustList[i])]} })

\* The outcomes of clusterCoeffs once the partition is resolved.
BinNotFound == "ValueError: bin not found"

BinOverlap == "ValueError: bin assigned to mutiple clusters"

\* C8: once clusterCoeffs has resolved the partition, a bin of the vector
\* that no cluster contains makes the call fail with 'bin not found', a bin
\* that more than one cluster contains makes it fail with 'multiple
\* clusters' (the error is that of the first such bin, which it names), and
\* in both cases no clustered vector is returned.
C8_BinErrors ==
   (ret.op = "clusterCoeffs" /\ ret.exc \in {"", BinNotFound, BinOverlap})
   => The({
         /\ bad.unowned \cup bad.shared # {} => ret.exc # ""
         /\ \A k \in bad.unowned :
               (\A b \in bad.unowned \cup bad.shared : k <= b)
               => ret.exc = BinNotFound /\ ret.val = << k >>
         /\ \A k \in bad.shared :
               (\A b \in bad.unowned \cup bad.shared : k <= b)
               => ret.exc = BinOverlap /\ ret.val = << k >>
         /\ ret.exc # "" => bad.unowned \cup bad.shared # {}
         : bad \in {[unowned |-> Unowned(inst._clusters[1], ret.coeffFile.len),
                     shared  |-> Shared(inst._clusters[1], ret.coeffFile.len)]} })

\* clusterCoeffs has failed on a bin of the vector that no cluster of the
\* resolved partition contains.
C8_Witness ==
   /\ ret.op = "clusterCoeffs"
   /\ ret.exc = BinNotFound
   /\ ret.val[1] \in Unowned(inst._clusters[1], ret.coeffFile.len)

\* C9: clusterCoeffs on an empty coefficient vector fails with a ValueError
\* before any partition is resolved: the instance, its partition cache
\* included, is left as it was.
C9_Empty ==
   [][(ret'.op = "clusterCoeffs" /\ ret'.coeffFile.len = 0)
      => /\ ret'.exc = "ValueError: failed reading coefficients"
         /\ inst' = inst]_vars

\* clusterCoeffs has failed on an empty vector, on an instance that holds a
\* cached partition.
C9_Witness ==
   /\ ret.op = "clusterCoeffs"
   /\ ret.coeffFile.len = 0
   /\ ret.exc = "ValueError: failed reading coefficients"
   /\ inst._clusters # None

\* The lengths each policy is written for.
Supported(cls, n) ==
   CASE cls = "Klems"         -> n = 145
     [] cls = "ReinhartRot"   -> \E MF \in 1..n : n = 144 * MF * MF + 1
     [] cls = "ReinhartCurve" -> n = 2305
     [] cls = "ReinhartProf"  -> n = 2305
     [] cls = "FullRes"       -> n >= 1

\* C10: under each policy, clusterCoeffs on a vector whose length the policy
\* does not support fails and returns no clustered vector.
C10_Unsupported ==
   (ret.op = "clusterCoeffs" /\ ~Supported(symm, ret.coeffFile.len))
   => ret.exc # ""

\* C11: when the grand total of the accumulated cluster sums is zero,
\* clusterCoeffs reports an error: it never returns a vector whose values
\* are quotients by zero (NaN or infinite).
C11_ZeroTotal ==
   (ret.op = "clusterCoeffs" /\ ret.exc = "")
   => \A i \in DOMAIN ret.val : ret.val[i].den # 0

\* C12: ReinhartSymmetry.patches(numCoeff) succeeds if and only if
\* numCoeff = 144 MF^2 + 1 for some integer MF >= 0 (numCoeff = 1 for MF = 0
\* included), and fails with the invalid-size ValueError otherwise.
C12_Patches ==
   ret.op = "patches"
   => IF \E MF \in 0..ret.numCoeff : ret.numCoeff = 144 * MF * MF + 1
      THEN ret.exc = ""
      ELSE ret.exc = "ValueError: Invalid number of Reinhart coefficients"

\* C13: under each policy, when clusters(n) has succeeded on an instance,
\* the instance holds the returned partition as its cache for n, so that a
\* following clusters(n) with the same n does not pass the test that leads
\* to computing the clusters again and returns the cached partition.
C13_Cached ==
   (ret.op = "clusters" /\ ret.exc = "")
   => /\ ~CacheMiss(inst, ret.numCoeff)
      /\ clusters(symm, inst, ret.numCoeff, NoFloat) = Return(inst, ret.val)

\* C14: whatever calls an instance has served before, the outcome of a
\* clusters(n) call (the partition returned, or the failure) is an outcome
\* that a fresh, never-used instance of the same policy gives for n: the
\* cache never serves the partition of another, previously requested size.
C14_AsFresh ==
   ret.op = "clusters"
   => \E fp \in FloatOutcomes(symm, SymmetryBase, ret.numCoeff) :
         \E fresh \in {clusters(symm, SymmetryBase, ret.numCoeff, fp)} :
            fresh.exc = ret.exc /\ fresh.val = ret.val

\* A clusters(n) call has failed on an instance that holds the cached
\* partition of another size.
C14_Witness ==
   /\ ret.op = "clusters"
   /\ ret.exc # ""
   /\ inst._clusters # None
   /\ inst._numCoeff # None
   /\ inst._numCoeff # Some(ret.numCoeff)

\* C15: the partition cache is private to each instance: a call on one
\* instance leaves unchanged every attribute (_numCoeff, _clusters,
\* _resolution) that the other instance, of the same or of another policy
\* class, reads for itself, although the attributes are declared on the
\* class.
C15_Private ==
   [][/\ ret'.on = "inst"
         => getattr(klass', peer'.dict) = getattr(klass, peer.dict)
      /\ ret'.on = "peer"
         => getattr(klass', inst') = getattr(klass, inst)]_vars

\* Two instances of one class hold the cached partitions of two sizes, the
\* last one computed after the other.
C15_Witness ==
   /\ symm = peer.symm
   /\ inst._clusters # None
   /\ peer.dict._clusters # None
   /\ inst._numCoeff # peer.dict._numCoeff
   /\ ret.op = "clusters" /\ ret.exc = ""

\* C16: round trip: for every radius and every integer pixel (x, y) for
\* which pix2Idx returns an index idx >= 0, idx2Pix(idx, radius) returns
\* exactly (x, y).
C16_RoundTrip ==
   (ret.op = "idx2Pix" /\ ret.from # None)
   => ret.exc = "" /\ ret.val = ret.from

\* C17: for every radius, pix2Idx gives distinct non-negative indices to
\* distinct pixels inside the fisheye circle, and the only negative value
\* it returns is -1, which it returns for pixels outside the circle.
C17_Injective ==
   ret.op = "pix2Idx"
   => /\ ret.val >= -1
      /\ ret.val = -1
         => (ret.pix[1] - ret.radius) * (ret.pix[1] - ret.radius)
            + (ret.pix[2] - ret.radius) * (ret.pix[2] - ret.radius)
            >= ret.radius * ret.radius
      /\ ret.val >= 0
         => \A other \in Pixels(ret.radius) \ {ret.pix} :
               pix2Idx(other, ret.radius) # ret.val

\* The squared distance of a pixel from the centre (radius, radius).
Dist2(pix, radius) ==
   (pix[1] - radius) * (pix[1] - radius) + (pix[2] - radius) * (pix[2] - radius)

\* C18: pix2Idx((x, y), r) returns the sentinel -1, without raising, for
\* every integer pixel with (x - r)^2 + (y - r)^2 > r^2.
C18_Outside ==
   (ret.op = "pix2Idx" /\ Dist2(ret.pix, ret.radius) > ret.radius * ret.radius)
   => ret.exc = "" /\ ret.val = -1

\* pix2Idx has been called on a pixel outside the circle but inside the
\* image's bounding square.
C18_Witness ==
   /\ ret.op = "pix2Idx"
   /\ Dist2(ret.pix, ret.radius) > ret.radius * ret.radius
   /\ ret.pix[1] \in 0..(2 * ret.radius)
   /\ ret.pix[2] \in 0..(2 * ret.radius)
   /\ ret.val = -1

\* C19: idx2Pix(idx, r) returns None, without raising and without running
\* the Newton-Raphson solve (whatever the solve would have done), whenever
\* idx < 0 or idx > pi r^2.
C19_OutOfRange ==
   (/\ ret.op = "idx2Pix"
    /\ (ret.idx < 0 \/ ret.idx * Micro > pi * ret.radius * ret.radius))
   => /\ ret.exc = "" /\ ret.val = None
      /\ \A fp \in [newton0 : BOOLEAN, flat1 : BOOLEAN, down : {{}}] :
            idx2Pix(ret.idx, ret.radius, fp) = [exc |-> "", val |-> None]

\* idx2Pix has been called on the first index past pi r^2.
C19_Witness ==
   /\ ret.op = "idx2Pix"
   /\ ret.idx * Micro > pi * ret.radius * ret.radius
   /\ (ret.idx - 1) * Micro <= pi * ret.radius * ret.radius
   /\ ret.val = None

\* The number of bins of the returned array whose value was computed for
\* the polar angle `polar` with `div` azimuth divisions.
BinsOf(dOmega, polar, div) ==
   Cardinality({k \in DOMAIN dOmega : dOmega[k] = [polar |-> polar, div |-> div]})

\* C20: for every integer MF >= 1, reinhartSolidAngles(MF) returns two
\* sequences dOmega and cosOmega of the same length 144 MF^2 + 1.  The
\* azimuth divisions per row (1 for the cap, then MF * [6, 12, 18, 24, 24,
\* 30, 30], each repeated MF times) sum to that length, and every bin
\* receives exactly one value: the cap's is the first computed and the last
\* returned, and row t = 1..7 MF, whose midpoint lies 2 t half-increments
\* from the zenith, has as many bins as it has azimuth divisions.
C20_SolidAngles ==
   ret.op = "reinhartSolidAngles"
   => LET n        == 144 * ret.MF * ret.MF + 1
          dOmega   == ret.val[1]
          cosOmega == ret.val[2]
          pattern  == << 6, 12, 18, 24, 24, 30, 30 >>
          div(t)   == ret.MF * pattern[((t - 1) \div ret.MF) + 1]
      IN  /\ ret.exc = ""
          /\ DOMAIN dOmega = 0..(n - 1)
          /\ DOMAIN cosOmega = 0..(n - 1)
          /\ dOmega[n - 1] = [polar |-> 1, div |-> 1]
          /\ \A t \in 1..(7 * ret.MF) : BinsOf(dOmega, 2 * t, div(t)) = div(t)
          /\ 1 + SumOver([t \in 1..(7 * ret.MF) |-> div(t)], 1..(7 * ret.MF)) = n
          /\ \A k \in 0..(n - 1) : cosOmega[k] = dOmega[k].polar

\* reinhartSolidAngles has returned for a subdivision factor above 1.
C20_Witness ==
   /\ ret.op = "reinhartSolidAngles"
   /\ ret.MF > 1
   /\ ret.exc = ""
   /\ DOMAIN ret.val[1] = 0..(144 * ret.MF * ret.MF)

Abs(x) == IF x >= 0 THEN x ELSE -x

\* The distances of the two sums of a run from 2 pi and from pi, in units
\* of 1e-8.
SumError(val) == Abs(val.sum - 2 * pi * 100)

ProjectedError(val) == Abs(val.sumProjected - pi * 100)

\* C21: the sum of dOmega returned by reinhartSolidAngles(MF) approaches
\* 2 pi and the sum of dOmega * cosOmega approaches pi as MF increases:
\* for every MF > 1 both are closer to their limits than for MF = 1, and
\* from MF = 8 on both are within 1% of them.
C21_Convergence ==
   ret.op = "main"
   => /\ ret.exc = ""
      /\ ret.MF > 1
         => \E one \in {reinhartSolidAngles_main(1).val} :
               /\ SumError(ret.val) < SumError(one)
               /\ ProjectedError(ret.val) < ProjectedError(one)
      /\ ret.MF >= 8
         => /\ 100 * SumError(ret.val) < 2 * pi * 100
            /\ 100 * ProjectedError(ret.val) < pi * 100

\* The sums have been taken for a subdivision factor of 8 or more.
C21_Witness ==
   /\ ret.op = "main"
   /\ ret.MF >= 8
   /\ ret.val.bins = 144 * ret.MF * ret.MF + 1
   /\ ret.val.sum # 2 * pi * 100

\* C22: for every MF >= 1 and numCoeff = 144 MF^2 + 1, patches(numCoeff)
\* returns the row count 7 MF, a per-row azimuth array whose row r holds
\* MF * [30, 30, 24, 24, 18, 12, 6][floor(r / MF)], and a cumulative array of
\* length 7 MF + 1 whose entry r < 7 MF is the sum of the rows 0..r and
\* whose last entry is the one before it plus 1, which is numCoeff.
C22_PatchRows ==
   (/\ ret.op = "patches"
    /\ \E MF \in 1..ret.numCoeff : ret.numCoeff = 144 * MF * MF + 1)
   => \E MF \in {m \in 1..ret.numCoeff : ret.numCoeff = 144 * m * m + 1} :
         LET perRow == << 30, 30, 24, 24, 18, 12, 6 >>
         IN  /\ ret.exc = ""
             /\ ret.val.r_row = 7 * MF
             /\ DOMAIN ret.val.rnaz = 0..(7 * MF - 1)
             /\ \A r \in 0..(7 * MF - 1) :
                   ret.val.rnaz[r] = MF * perRow[(r \div MF) + 1]
             /\ DOMAIN ret.val.racc = 0..(7 * MF)
             /\ \A r \in 0..(7 * MF - 1) :
                   ret.val.racc[r] = SumOver(ret.val.rnaz, 0..r)
             /\ ret.val.racc[7 * MF] = ret.val.racc[7 * MF - 1] + 1
             /\ ret.val.racc[7 * MF] = ret.numCoeff

\* patches has returned for a subdivision factor above 1.
C22_Witness ==
   /\ ret.op = "patches"
   /\ ret.exc = ""
   /\ ret.numCoeff > 145
   /\ ret.val.r_row > 7

\* floor of the polar angle theta in degrees.
FloorDeg(theta) ==
   CHOOSE k \in 0..180 :
      k * k * theta.den <= theta.num /\ theta.num < (k + 1) * (k + 1) * theta.den

\* The polar angles the bin idx of an image of the given radius can have:
\* that of its pixel, for each outcome of the rounding in idx2Pix.
BinThetas(idx, rad) ==
   {vwRay_theta(idx2Pix(idx, rad, [newton0 |-> TRUE, flat1 |-> flat1,
                                   down |-> {}]).val[1], rad)
      : flat1 \in IF idx = 1 THEN BOOLEAN ELSE {FALSE}}

\* C23: FullResSymmetry.clusters places every bin index in the cluster whose
\* number is floor(polar angle of the bin in degrees), for every polar angle
\* a bin can have.  (An angle of exactly k degrees, which the floating-point
\* comparison can put on either side of the edge, is allowed cluster k - 1
\* as well.)
C23_FloorOfAngle ==
   (symm = "FullRes" /\ ret.op = "clusters" /\ ret.exc = "")
   => \A i \in DOMAIN ret.val : \A j \in DOMAIN ret.val[i] :
         \E theta \in BinThetas(ret.val[i][j], FullResRadius(ret.numCoeff)) :
            \/ FloorDeg(theta) = i - 1
            \/ IsTie(theta, i)

\* C23, amended: FullResSymmetry.clusters places every bin index in the
\* cluster whose number is the smaller of floor(polar angle of the bin in
\* degrees) and 79: the bins of 80 degrees and more all fall in the last
\* cluster.  (An angle of exactly k degrees is allowed cluster k - 1 as
\* well.)
C23_FloorClamped ==
   (symm = "FullRes" /\ ret.op = "clusters" /\ ret.exc = "")
   => \A i \in DOMAIN ret.val : \A j \in DOMAIN ret.val[i] :
         \E theta \in BinThetas(ret.val[i][j], FullResRadius(ret.numCoeff)) :
            \/ (IF FloorDeg(theta) < 79 THEN FloorDeg(theta) ELSE 79) = i - 1
            \/ IsTie(theta, i)

\* FullResSymmetry.clusters has returned clusters in which a bin of 80
\* degrees or more is in cluster 79 and a bin below 79 degrees is in the
\* cluster of its floor.
C23_Witness ==
   /\ symm = "FullRes" /\ ret.op = "clusters" /\ ret.exc = ""
   /\ \E j \in DOMAIN ret.val[80] :
         \A theta \in BinThetas(ret.val[80][j], FullResRadius(ret.numCoeff)) :
            FloorDeg(theta) >= 80
   /\ \E i \in 2..79 : \E j \in DOMAIN ret.val[i] :
         \A theta \in BinThetas(ret.val[i][j], FullResRadius(ret.numCoeff)) :
            FloorDeg(theta) = i - 1 /\ ~IsTie(theta, i - 1)

\* The rows a run has written, if it has written.
Written == IF run.outFile \in {None, Some(Other)} THEN None ELSE Some(run.outFile[1].rows)

\* What clusterCoeffs can return for a file on a new instance.
FreshCoeffs(coeffFile) ==
   {r.val : r \in {rr \in {SymmetryBase_clusterCoeffs(symm, getattr(SymmetryBase, NoAttrs), coeffFile, fp) :
                     fp \in FloatOutcomes(symm, getattr(SymmetryBase, NoAttrs),
                                          IF coeffFile.len = 1 THEN 0 ELSE coeffFile.len)} :
                   rr.exc = ""}}

\* C24: gdivclust.py writes the output only at its end, after
\* clusterCoeffs has succeeded on every coefficient file with one and the
\* same number of clusters: the matrix written has one row per file, in
\* command-line order, row i the clustered vector of file i, and one
\* column per cluster.  A run in which a file fails or gives another
\* cluster count ends with a nonzero status and the output file as it was.
C24_WriteLast ==
   /\ Written # None
      => /\ run.pc = "exit" /\ run.status = 0
         /\ Len(Written[1]) = Len(run.argv)
         /\ \A c \in DOMAIN run.calls : run.calls[c].exc = ""
         /\ \A i \in DOMAIN run.argv :
               /\ Written[1][i] \in FreshCoeffs(run.argv[i])
               /\ Len(Written[1][i]) = Len(Written[1][1])
   /\ (\E c \in DOMAIN run.calls :
          \/ run.calls[c].exc # ""
          \/ Len(run.calls[c].val) # Len(run.calls[1].val))
      => /\ run.pc = "exit" /\ run.status # 0
         /\ Written = None
         /\ run.outFile = IF run.existed THEN Some(Other) ELSE None

\* A run has written the rows of two files that differ.
C24_Witness ==
   /\ Written # None
   /\ Len(run.argv) = 2
   /\ Written[1][1] # Written[1][2]

\* C25: gdivclust.py checks that the output file does not exist before it
\* reads or clusters any coefficient file: when it exists, the run ends
\* with a nonzero status, no call of clusterCoeffs made, and the file as
\* it was.
C25_ExistsFirst ==
   run.existed
   => /\ run.calls = << >>
      /\ inst = NoAttrs
      /\ run.outFile = Some(Other)
      /\ run.pc \in {"main", "exit"}
      /\ run.pc = "exit" => run.status # 0

\* A run with coefficient files to cluster has ended on the existing
\* output file.
C25_Witness ==
   /\ run.existed
   /\ run.pc = "exit"
   /\ Len(run.argv) >= 1

\* C26: the coefficient file getCoeffs writes holds one value per bin
\* index, in bin-index order: the value at position i (from 0) is that of
\* the bin whose pix2Idx index is i, for each of the int(pi rad^2 + 0.5)
\* bins.
C26_BinOrder ==
   (ret.op = "getCoeffs" /\ ret.exc = "" /\ ret.val # None)
   => /\ \A i \in DOMAIN ret.val : ret.val[i].idx = i - 1
      /\ Len(ret.val) = int(pi * ret.rad * ret.rad + Micro \div 2)

\* C27: a clusters call that raises leaves every field of the instance
\* (_clusters, _numCoeff, _resolution) as it was before the call.
C27_FailedCallKeepsFields ==
   [][(ret'.op = "clusters" /\ ret'.exc # "")
      => (inst' = inst /\ klass' = klass)]_vars

\* C28: for every numCoeff >= 1 the radius rad = int(sqrt(numCoeff / pi) + 1)
\* of FullResSymmetry.clusters has numCoeff <= pi rad^2, so that idx2Pix(idx,
\* rad) passes its range check for every idx in 0..numCoeff-1 and does not
\* return None.  Stated on the calls of idx2Pix: a call that returns, on an
\* index and the radius that clusters would pass it for some numCoeff, does
\* not return None.
C28_NeverNone ==
   ret.op = "idx2Pix"
   => \A numCoeff \in 1..((pi * ret.radius * ret.radius) \div Micro + 2) :
         (FullResRadius(numCoeff) = ret.radius /\ ret.idx \in 0..(numCoeff - 1))
         => /\ numCoeff * Micro <= pi * ret.radius * ret.radius
            /\ ret.exc = "" => ret.val # None

\* idx2Pix has returned a pixel for the last index of the largest numCoeff
\* that gives its radius (above 1).
C28_Witness ==
   /\ ret.op = "idx2Pix" /\ ret.exc = "" /\ ret.val # None
   /\ ret.radius > 1
   /\ FullResRadius(ret.idx + 1) = ret.radius
   /\ FullResRadius(ret.idx + 2) = ret.radius + 1

\* C29: reinhartSolidAngles(MF) and ReinhartSymmetry.patches /
\* ReinhartRotSymmetry.clusters number the bins alike, for every MF >= 1:
\* at every bin index the row patches gives the index has the azimuth
\* division count of the row whose solid angle is stored at the index, the
\* rows run from the horizon (index 0) to the zenith, and the polar cap is
\* the single last index 144 MF^2 in both, cluster 0 of ReinhartRot.  (The
\* row t = 1..7 MF from the zenith has its midpoint 2 t half-increments
\* from the zenith; the cap's value is taken at 1.)
C29_SameNumbering ==
   (ret.op \in {"patches", "clusters"} /\ symm = "ReinhartRot" /\ ret.exc = "")
   => \E MF \in {RoundSqrt144(ret.numCoeff - 1)} :
      \E sa \in {reinhartSolidAngles(MF)} :
         /\ sa.exc = ""
         /\ DOMAIN sa.val[1] = 0..(ret.numCoeff - 1)
         /\ sa.val[1][144 * MF * MF] = [polar |-> 1, div |-> 1]
         /\ IF ret.op = "patches"
            THEN /\ ret.val.racc[ret.val.r_row] - 1 = 144 * MF * MF
                 /\ \A r \in 0..(ret.val.r_row - 1) :
                       \A i \in (IF r = 0 THEN 0 ELSE ret.val.racc[r - 1])
                                ..(ret.val.racc[r] - 1) :
                          sa.val[1][i] = [polar |-> 2 * (ret.val.r_row - r),
                                          div   |-> ret.val.rnaz[r]]
            ELSE /\ ret.val[1] = << 144 * MF * MF >>
                 /\ \A c \in 2..Len(ret.val) : \A j \in DOMAIN ret.val[c] :
                       sa.val[1][ret.val[c][j]] = [polar |-> 2 * (c - 1),
                                                   div   |-> Len(ret.val[c])]

\* ReinhartRotSymmetry.clusters has returned the rows of a subdivision
\* factor above 1, for which reinhartSolidAngles returns as well.
C29_Witness ==
   /\ symm = "ReinhartRot" /\ ret.op = "clusters" /\ ret.exc = ""
   /\ ret.numCoeff > 145
   /\ Len(ret.val) > 8
   /\ reinhartSolidAngles(RoundSqrt144(ret.numCoeff - 1)).exc = ""

====
